---- MODULE Spec2Model ----
(***************************************************************************)
(* Text requirement/skill extraction and scoring of the campus placement   *)
(* portal: JobParser (app/company_portal/job_parser.py) and ResumeBuilder  *)
(* (app/ai_modules/resume_builder.py).                                     *)
(*                                                                         *)
(* A Python str is a sequence of characters; a character is a one-letter   *)
(* TLA+ string ("a", "\n"), a non-ASCII one is named by its code point     *)
(* ("U+2014").  A Python dict is a sequence of entries in insertion order. *)
(***************************************************************************)
EXTENDS Integers, Sequences, FiniteSets, TLC

VARIABLES
  pc,               \* position of the caller in the scenario being run
  hashseed,         \* PYTHONHASHSEED of the running interpreter process
  job_text,         \* JobParser: the text handed to parse_job_description
  extracted,        \* JobParser: result of the first parse_job_description call
  extracted2,       \* JobParser: result of a second call on the same text
  resume_data,      \* ResumeBuilder: the resume record handed to analyze_job_fit
  job_description,  \* ResumeBuilder: the job text handed to analyze_job_fit
  resume_skills,    \* analyze_job_fit local (line 148)
  job_skills,       \* analyze_job_fit local (line 149)
  fit_result,       \* analyze_job_fit return value
  extracted_data,   \* calculate_complexity argument
  complexity_score, \* calculate_complexity return value
  ats_resume,       \* calculate_ats_score argument
  ats_result,       \* calculate_ats_score return value
  ats_keywords,     \* generate_ats_keywords return value
  method,           \* JobParser: the extraction method being called
  returned,         \* JobParser: the return value of that method
  skill_database,   \* JobParser: self.skill_database, shared by all calls
  calls,            \* JobParser: the calls in progress, one per thread
  optimized_jd,     \* generate_optimized_jd outcome
  db,               \* get_db: the session's use number, exception in flight and call log
  st                \* main.py: st.session_state, the login form's inputs and the page rendered

vars == << pc, hashseed, job_text, extracted, extracted2, resume_data,
           job_description, resume_skills, job_skills, fit_result,
           extracted_data, complexity_score, ats_resume, ats_result, ats_keywords,
           method, returned, skill_database, calls, optimized_jd, db, st >>

\* A variable that the running scenario does not use, or a value not yet computed.
None == << "None" >>

-----------------------------------------------------------------------------
(* Characters and the str methods the code uses *)

LowerLetters ==
  {"a","b","c","d","e","f","g","h","i","j","k","l","m",
   "n","o","p","q","r","s","t","u","v","w","x","y","z"}

UpperLetters ==
  {"A","B","C","D","E","F","G","H","I","J","K","L","M",
   "N","O","P","Q","R","S","T","U","V","W","X","Y","Z"}

Digits == {"0","1","2","3","4","5","6","7","8","9"}

Letters == LowerLetters \cup UpperLetters

\* str.isspace characters
Whitespace == {" ", "\n", "\t", "\r"}

\* characters matched by \w: U+00E9 (e acute) is a letter, U+2014 (em dash) is not
WordChars == Letters \cup Digits \cup {"_", "U+00E9"}

LowerMap ==
  [c \in UpperLetters |->
     CASE c = "A" -> "a" [] c = "B" -> "b" [] c = "C" -> "c" [] c = "D" -> "d"
       [] c = "E" -> "e" [] c = "F" -> "f" [] c = "G" -> "g" [] c = "H" -> "h"
       [] c = "I" -> "i" [] c = "J" -> "j" [] c = "K" -> "k" [] c = "L" -> "l"
       [] c = "M" -> "m" [] c = "N" -> "n" [] c = "O" -> "o" [] c = "P" -> "p"
       [] c = "Q" -> "q" [] c = "R" -> "r" [] c = "S" -> "s" [] c = "T" -> "t"
       [] c = "U" -> "u" [] c = "V" -> "v" [] c = "W" -> "w" [] c = "X" -> "x"
       [] c = "Y" -> "y" [] c = "Z" -> "z"]

LowerChar(c) == IF c \in UpperLetters THEN LowerMap[c] ELSE c

\* str.lower()
Lower(s) == [i \in 1..Len(s) |-> LowerChar(s[i])]

\* s[:n]
Take(s, n) == SubSeq(s, 1, IF n < Len(s) THEN n ELSE Len(s))

\* x in list
InList(x, s) == \E i \in 1..Len(s) : s[i] = x

RECURSIVE Flatten(_)
\* the concatenation of a sequence of sequences (list.extend in a loop)
Flatten(ss) == IF ss = <<>> THEN <<>> ELSE Head(ss) \o Flatten(Tail(ss))

\* [x for x in s if P(x)]
Filter(s, P(_)) == SelectSeq(s, P)

Min(a, b) == IF a < b THEN a ELSE b

-----------------------------------------------------------------------------
(* Outcome of a call: a returned value or a raised exception *)

Return(v) == [raised |-> "none", value |-> v]

Raise(e) == [raised |-> e]

-----------------------------------------------------------------------------
(* re.search(r'\b' + re.escape(word) + r'\b', text), used by both extract_skills *)

\* \b at position i (between s[i-1] and s[i]); the ends of the text count as non-word
AtWordBoundary(s, i) ==
  LET before == i > 1 /\ s[i - 1] \in WordChars
      after  == i <= Len(s) /\ s[i] \in WordChars
  IN  before # after

\* the literal word occurs in s starting at position i
LiteralAt(word, s, i) ==
  /\ i + Len(word) - 1 <= Len(s)
  /\ \A k \in 1..Len(word) : s[i + k - 1] = word[k]

SearchEscapedWord(word, s) ==
  \E i \in 1..(Len(s) - Len(word) + 1) :
    /\ s[i] = word[1]
    /\ LiteralAt(word, s, i)
    /\ AtWordBoundary(s, i)
    /\ AtWordBoundary(s, i + Len(word))

\* dict.get(category, []) on a category -> skills dict
SkillsGet(d, category) ==
  IF \E k \in 1..Len(d) : d[k].category = category
  THEN (CHOOSE e \in {d[k] : k \in 1..Len(d)} : e.category = category).skills
  ELSE <<>>

-----------------------------------------------------------------------------
(* ResumeBuilder, app/ai_modules/resume_builder.py *)

ResumeBuilder_skill_database ==
  << [category |-> "Programming", skills |-> <<
        <<"P","y","t","h","o","n">>,
        <<"J","a","v","a">>,
        <<"J","a","v","a","S","c","r","i","p","t">>,
        <<"C","+","+">>,
        <<"S","Q","L">>,
        <<"R">>,
        <<"G","o">>,
        <<"R","u","s","t">>,
        <<"T","y","p","e","S","c","r","i","p","t">>
      >>],
     [category |-> "Web Development", skills |-> <<
        <<"H","T","M","L">>,
        <<"C","S","S">>,
        <<"R","e","a","c","t">>,
        <<"A","n","g","u","l","a","r">>,
        <<"V","u","e">>,
        <<"N","o","d","e",".","j","s">>,
        <<"D","j","a","n","g","o">>,
        <<"F","l","a","s","k">>,
        <<"S","p","r","i","n","g">>
      >>],
     [category |-> "Data Science", skills |-> <<
        <<"P","a","n","d","a","s">>,
        <<"N","u","m","P","y">>,
        <<"T","e","n","s","o","r","F","l","o","w">>,
        <<"P","y","T","o","r","c","h">>,
        <<"S","c","i","k","i","t","-","l","e","a","r","n">>,
        <<"T","a","b","l","e","a","u">>,
        <<"P","o","w","e","r"," ","B","I">>
      >>],
     [category |-> "Cloud & DevOps", skills |-> <<
        <<"A","W","S">>,
        <<"A","z","u","r","e">>,
        <<"G","C","P">>,
        <<"D","o","c","k","e","r">>,
        <<"K","u","b","e","r","n","e","t","e","s">>,
        <<"T","e","r","r","a","f","o","r","m">>,
        <<"J","e","n","k","i","n","s">>
      >>],
     [category |-> "Databases", skills |-> <<
        <<"M","y","S","Q","L">>,
        <<"P","o","s","t","g","r","e","S","Q","L">>,
        <<"M","o","n","g","o","D","B">>,
        <<"R","e","d","i","s">>,
        <<"O","r","a","c","l","e">>,
        <<"C","a","s","s","a","n","d","r","a">>
      >>],
     [category |-> "Soft Skills", skills |-> <<
        <<"C","o","m","m","u","n","i","c","a","t","i","o","n">>,
        <<"L","e","a","d","e","r","s","h","i","p">>,
        <<"T","e","a","m","w","o","r","k">>,
        <<"P","r","o","b","l","e","m","-","s","o","l","v","i","n","g">>,
        <<"C","r","e","a","t","i","v","i","t","y">>,
        <<"T","i","m","e"," ","M","a","n","a","g","e","m","e","n","t">>
      >>],
     [category |-> "Tools", skills |-> <<
        <<"G","i","t">>,
        <<"J","I","R","A">>,
        <<"C","o","n","f","l","u","e","n","c","e">>,
        <<"S","l","a","c","k">>,
        <<"F","i","g","m","a">>,
        <<"V","S"," ","C","o","d","e">>,
        <<"P","o","s","t","m","a","n">>
      >>] >>

ResumeBuilder_extract_skills(text) ==
  LET text_lower == Lower(text)
      category_skills(k) ==
        SelectSeq(ResumeBuilder_skill_database[k].skills,
                  LAMBDA skill : SearchEscapedWord(Lower(skill), text_lower))
      per_category ==
        [k \in 1..Len(ResumeBuilder_skill_database) |->
           [category |-> ResumeBuilder_skill_database[k].category,
            skills   |-> category_skills(k)]]
  IN  SelectSeq(per_category, LAMBDA e : e.skills # <<>>)

\* json.dumps escaping of one character (ensure_ascii=True)
JsonEscapeChar(c) ==
  CASE c = "\"" -> << "\\", "\"" >>
    [] c = "\\" -> << "\\", "\\" >>
    [] c = "\n" -> << "\\", "n" >>
    [] c = "\r" -> << "\\", "r" >>
    [] c = "\t" -> << "\\", "t" >>
    [] c = "U+2014" -> << "\\", "u", "2", "0", "1", "4" >>
    [] c = "U+00E9" -> << "\\", "u", "0", "0", "e", "9" >>
    [] OTHER -> << c >>

JsonString(s) ==
  << "\"" >> \o Flatten([i \in 1..Len(s) |-> JsonEscapeChar(s[i])]) \o << "\"" >>

\* json.dumps of a dict with str keys and str values: {"k": "v", "k2": "v2"}
json_dumps(d) ==
  LET item(k) == (IF k > 1 THEN << ",", " " >> ELSE <<>>)
                 \o JsonString(d[k].key) \o << ":", " " >> \o JsonString(d[k].value)
  IN  << "{" >> \o Flatten([k \in 1..Len(d) |-> item(k)]) \o << "}" >>

\* a / b on Python numbers: the exact quotient, or ZeroDivisionError
TrueDiv(a, b) ==
  IF b = 0 THEN Raise("ZeroDivisionError") ELSE Return([num |-> a, den |-> b])

\* round(q, 1) of the quotient q.num / q.den, in tenths (round half to even)
Round1(q) ==
  LET n == q.num * 10
      f == n \div q.den
      r == n % q.den
  IN  IF 2 * r < q.den THEN f
      ELSE IF 2 * r > q.den THEN f + 1
      ELSE IF f % 2 = 0 THEN f ELSE f + 1

\* the (category, skill) pairs of a category -> skills dict, in iteration order
SkillPairs(d) ==
  Flatten([k \in 1..Len(d) |->
             [j \in 1..Len(d[k].skills) |->
                [category |-> d[k].category, skill |-> d[k].skills[j]]]])

\* MatchedSkills looking the skill up in the job's own skills instead of the resume's
MatchedSkills_WrongDict(rskills, jskills) ==
  LET hit == SelectSeq(SkillPairs(jskills),
                       LAMBDA p : InList(p.skill, SkillsGet(jskills, p.category)))
  IN  [i \in 1..Len(hit) |-> hit[i].skill]

\* lines 152-160: the job's skills found under the same category of the resume
MatchedSkills(rskills, jskills) ==
  LET hit == SelectSeq(SkillPairs(jskills),
                       LAMBDA p : InList(p.skill, SkillsGet(rskills, p.category)))
  IN  [i \in 1..Len(hit) |-> hit[i].skill]

MissingSkills(rskills, jskills) ==
  LET miss == SelectSeq(SkillPairs(jskills),
                        LAMBDA p : ~InList(p.skill, SkillsGet(rskills, p.category)))
  IN  [i \in 1..Len(miss) |-> miss[i].skill]

\* MatchScore without the "if ... > 0 else 0" guard
MatchScore_Unguarded(matched_skills, missing_skills) ==
  LET total == Len(matched_skills) + Len(missing_skills)
      quot  == TrueDiv(Len(matched_skills), total)
  IN  IF quot.raised # "none" THEN quot
      ELSE Return([num |-> quot.value.num * 100, den |-> quot.value.den])

\* line 162: len(matched) / (len(matched) + len(missing)) * 100 if ... > 0 else 0
MatchScore(matched_skills, missing_skills) ==
  LET total == Len(matched_skills) + Len(missing_skills)
      quot  == TrueDiv(Len(matched_skills), total)
  IN  IF total > 0
      THEN IF quot.raised # "none" THEN quot
           ELSE Return([num |-> quot.value.num * 100, den |-> quot.value.den])
      ELSE Return([num |-> 0, den |-> 1])

\* lines 168-172; the first suggestion lists missing_skills[:5] when there are any
Suggestions(missing_skills) ==
  << IF missing_skills # <<>>
     THEN [text |-> "Add these skills: ", skills |-> Take(missing_skills, 5)]
     ELSE [text |-> "Good skill match!", skills |-> <<>>],
     [text |-> "Use more quantifiable achievements", skills |-> <<>>],
     [text |-> "Tailor your summary to the job role", skills |-> <<>>] >>

\* AnalyzeJobFitBody returning the lists without the [:10] of lines 166-167
AnalyzeJobFitBody_Uncut(rskills, jskills) ==
  LET matched_skills == MatchedSkills(rskills, jskills)
      missing_skills == MissingSkills(rskills, jskills)
      match_score    == MatchScore(matched_skills, missing_skills)
  IN  IF match_score.raised # "none" THEN match_score
      ELSE Return([match_score    |-> Round1(match_score.value),
                   matched_skills |-> matched_skills,
                   missing_skills |-> missing_skills,
                   suggestions    |-> Suggestions(missing_skills)])

\* AnalyzeJobFitBody computing match_score from the lists cut to 10 entries
AnalyzeJobFitBody_ScoreAfterCut(rskills, jskills) ==
  LET matched_skills == Take(MatchedSkills(rskills, jskills), 10)
      missing_skills == Take(MissingSkills(rskills, jskills), 10)
      match_score    == MatchScore(matched_skills, missing_skills)
  IN  IF match_score.raised # "none" THEN match_score
      ELSE Return([match_score    |-> Round1(match_score.value),
                   matched_skills |-> matched_skills,
                   missing_skills |-> missing_skills,
                   suggestions    |-> Suggestions(missing_skills)])

\* match_score is held in tenths: 1000 is 100.0, 500 is 50.0
AnalyzeJobFitBody(rskills, jskills) ==
  LET matched_skills == MatchedSkills(rskills, jskills)
      missing_skills == MissingSkills(rskills, jskills)
      match_score    == MatchScore(matched_skills, missing_skills)
  IN  IF match_score.raised # "none" THEN match_score
      ELSE Return([match_score    |-> Round1(match_score.value),
                   matched_skills |-> Take(matched_skills, 10),
                   missing_skills |-> Take(missing_skills, 10),
                   suggestions    |-> Suggestions(missing_skills)])

-----------------------------------------------------------------------------
(* Input texts: concatenations of a few fragments *)

RECURSIVE TextsUpTo(_, _)
TextsUpTo(fragments, n) ==
  IF n = 0 THEN { <<>> }
  ELSE LET shorter == TextsUpTo(fragments, n - 1)
       IN  shorter \cup { t \o fragments[k] : t \in shorter, k \in 1..Len(fragments) }

\* the skill names of the database, one after the other
AllResumeSkills ==
  Flatten([k \in 1..Len(ResumeBuilder_skill_database) |->
             ResumeBuilder_skill_database[k].skills])

\* ','.join(names)
JoinCommas(names) ==
  Flatten([k \in 1..Len(names) |-> IF k = 1 THEN names[k] ELSE << "," >> \o names[k]])

\* fragments of resume and job texts: skills of the Programming category after a
\* text start, a blank, a line break and an em dash; a lone carriage return
FitFragments ==
  << <<"P","y","t","h","o","n">>,
     <<" ","J","a","v","a">>,
     <<"\n","S","Q","L">>,
     <<"\r">>,
     <<"U+2014","R">> >>

MaxFitFrags == 2

\* the number of skills of the longest text
MaxFitSkills == 13

\* the texts built from the fragments, and one that lists MaxFitSkills skills
FitTexts ==
  TextsUpTo(FitFragments, MaxFitFrags)
    \cup { JoinCommas(Take(AllResumeSkills, MaxFitSkills)) }

\* resume_builder.py line 381: both fields hold the pasted resume text
ResumeData(text) ==
  << [key |-> <<"s","k","i","l","l","s">>, value |-> text],
     [key |-> <<"e","x","p","e","r","i","e","n","c","e">>, value |-> text] >>

-----------------------------------------------------------------------------
(* Scenario Fit: one call of ResumeBuilder.analyze_job_fit *)

InitFit ==
  /\ pc = "fit_call"
  /\ st = None
  /\ db = None
  /\ optimized_jd = None
  /\ calls = None
  /\ skill_database = None
  /\ returned = None
  /\ method = None
  /\ ats_keywords = None
  /\ resume_data \in { ResumeData(t) : t \in FitTexts }
  /\ job_description \in FitTexts
  /\ resume_skills = None
  /\ job_skills = None
  /\ fit_result = None
  /\ hashseed = 0
  /\ job_text = None
  /\ extracted = None
  /\ extracted2 = None
  /\ extracted_data = None
  /\ complexity_score = 0
  /\ ats_resume = None
  /\ ats_result = None

AnalyzeJobFit ==
  /\ pc = "fit_call"
  /\ resume_skills' = ResumeBuilder_extract_skills(json_dumps(resume_data))
  /\ job_skills' = ResumeBuilder_extract_skills(job_description)
  /\ fit_result' = AnalyzeJobFitBody(resume_skills', job_skills')
  /\ pc' = "fit_done"
  /\ UNCHANGED << hashseed, job_text, extracted, extracted2, resume_data,
                  job_description, extracted_data, complexity_score,
                  ats_resume, ats_result, ats_keywords, method, returned,
                  skill_database, calls, optimized_jd, db, st >>

SpecFit == InitFit /\ [][AnalyzeJobFit]_vars

-----------------------------------------------------------------------------
(* The regular expressions of job_parser.py.  A pattern is a tree of nodes;   *)
(* all of them are used with re.IGNORECASE, so a pattern holds lower-case     *)
(* characters and is run on the lower-cased text.  Matching is Python's:      *)
(* leftmost start, alternatives in order, greedy repetition, backtracking.    *)

Lit(w) == [t |-> "lit", w |-> Lower(w)]

Ch(S) == [t |-> "ch", s |-> {LowerChar(c) : c \in S}]

Cat(ns) == [t |-> "cat", ns |-> ns]

Alt(ns) == [t |-> "alt", ns |-> ns]

\* (?:n)?, greedy
Opt(n) == [t |-> "opt", n |-> n]

\* [S]* and [S]+, greedy: a character class repeated lo times or more
Span(S, lo) == [t |-> "span", s |-> {LowerChar(c) : c \in S}, lo |-> lo]

Star(S) == Span(S, 0)

Plus(S) == Span(S, 1)

\* capturing group number k
Grp(k, n) == Cat(<< [t |-> "open", k |-> k], n, [t |-> "close", k |-> k] >>)

NoMatch == [ok |-> FALSE]

NoGroups == << << 0, 0 >>, << 0, 0 >> >>

SetMax(S) == CHOOSE x \in S : \A y \in S : y <= x

SetMin(S) == CHOOSE x \in S : \A y \in S : x <= y

\* the number of characters of s from position i on that are in S
RunLength(s, i, S) ==
  SetMin({j \in i..(Len(s) + 1) : j = Len(s) + 1 \/ s[j] \notin S}) - i

RECURSIVE Run(_, _, _, _)
\* Match the nodes of todo one after the other on s from position i; g holds the
\* groups' <<start, end>> so far.  The first match in backtracking order, or NoMatch.
Run(todo, s, i, g) ==
  IF todo = <<>> THEN [ok |-> TRUE, e |-> i, g |-> g]
  ELSE
    LET n    == Head(todo)
        rest == Tail(todo)
    IN  CASE n.t = "ch" ->
               IF i <= Len(s) /\ s[i] \in n.s THEN Run(rest, s, i + 1, g) ELSE NoMatch
          [] n.t = "lit" ->
               IF LiteralAt(n.w, s, i) THEN Run(rest, s, i + Len(n.w), g) ELSE NoMatch
          [] n.t = "cat" -> Run(n.ns \o rest, s, i, g)
          [] n.t = "alt" ->
               IF n.ns = <<>> THEN NoMatch
               ELSE LET first == Run(<< Head(n.ns) >> \o rest, s, i, g)
                    IN  IF first.ok THEN first
                        ELSE Run(<< Alt(Tail(n.ns)) >> \o rest, s, i, g)
          [] n.t = "opt" ->
               LET with == Run(<< n.n >> \o rest, s, i, g)
               IN  IF with.ok THEN with ELSE Run(rest, s, i, g)
          [] n.t = "span" ->
               \* the longest repetition after which the rest matches
               LET most == RunLength(s, i, n.s)
                   good == {k \in n.lo..most : Run(rest, s, i + k, g).ok}
               IN  IF good = {} THEN NoMatch ELSE Run(rest, s, i + SetMax(good), g)
          [] n.t = "open" -> Run(rest, s, i, [g EXCEPT ![n.k] = << i, 0 >>])
          [] n.t = "close" -> Run(rest, s, i, [g EXCEPT ![n.k] = << g[n.k][1], i >>])

\* the leftmost match of pattern in s that starts at position i or later
SearchFrom(pattern, s, i) ==
  LET starts == {b \in i..(Len(s) + 1) : Run(<< pattern >>, s, b, NoGroups).ok}
      b == SetMin(starts)
      m == Run(<< pattern >>, s, b, NoGroups)
  IN  IF starts = {} THEN NoMatch
      ELSE [ok |-> TRUE, b |-> b, e |-> m.e, g |-> m.g]

\* re.search(pattern, text, re.IGNORECASE)
re_search(pattern, text) == SearchFrom(pattern, Lower(text), 1)

\* match.group(k)
Group(m, text, k) == SubSeq(text, m.g[k][1], m.g[k][2] - 1)

RECURSIVE FindAllFrom(_, _, _, _)
FindAllFrom(pattern, lowered, text, i) ==
  LET m == SearchFrom(pattern, lowered, i)
  IN  IF ~m.ok THEN <<>>
      ELSE << SubSeq(text, m.b, m.e - 1) >>
           \o FindAllFrom(pattern, lowered, text, IF m.e > m.b THEN m.e ELSE m.e + 1)

\* [match.group() for match in re.finditer(pattern, text, re.IGNORECASE)]
re_finditer_groups(pattern, text) == FindAllFrom(pattern, Lower(text), text, 1)

-----------------------------------------------------------------------------
(* str methods *)

\* str.strip()
Strip(s) ==
  LET keep == {i \in 1..Len(s) : s[i] \notin Whitespace}
  IN  IF keep = {} THEN <<>> ELSE SubSeq(s, SetMin(keep), SetMax(keep))

\* the elements of a set of numbers in increasing order
Sorted(S) ==
  [k \in 1..Cardinality(S) |-> CHOOSE x \in S : Cardinality({y \in S : y < x}) = k - 1]

\* the pieces of s between separators; with merge, a run of separators is one
SplitAt(s, seps, merge) ==
  LET at     == {i \in 1..Len(s) : s[i] \in seps}
      starts == {1} \cup {i + 1 : i \in {j \in at : ~merge \/ j = Len(s) \/ s[j + 1] \notin seps}}
      begin  == Sorted(starts)
      stop(p) == SetMin({j \in p..(Len(s) + 1) : j = Len(s) + 1 \/ s[j] \in seps})
  IN  [k \in 1..Len(begin) |-> SubSeq(s, begin[k], stop(begin[k]) - 1)]

\* re.split(r'[.!?]+', text)
SplitSentences(text) == SplitAt(text, {".", "!", "?"}, TRUE)

\* text.split('\n')
SplitLines(text) == SplitAt(text, {"\n"}, FALSE)

\* str.split(): the words between runs of whitespace
Words(s) == SelectSeq(SplitAt(s, Whitespace, TRUE), LAMBDA w : w # <<>>)

\* ' '.join(words)
JoinWords(ws) ==
  Flatten([k \in 1..Len(ws) |-> IF k = 1 THEN ws[k] ELSE << " " >> \o ws[k]])

\* keyword in s
Contains(s, keyword) ==
  \E i \in 1..(Len(s) - Len(keyword) + 1) : s[i] = keyword[1] /\ LiteralAt(keyword, s, i)

\* any(keyword in s for keyword in keywords)
ContainsAny(s, keywords) == \E k \in 1..Len(keywords) : Contains(s, keywords[k])

\* the distinct elements of a list, each at its first occurrence
Dedupe(xs) ==
  LET first == {i \in 1..Len(xs) : \A j \in 1..(i - 1) : xs[j] # xs[i]}
      order == Sorted(first)
  IN  [k \in 1..Len(order) |-> xs[order[k]]]

\* list(set(xs)): the distinct elements in the iteration order of a set of str,
\* which follows the strings' hashes and so the interpreter's hash seed.  Seed 0
\* stands for a seed that iterates in first-seen order, seed r for one that
\* starts r elements later.
list_set(xs, seed) ==
  LET d == Dedupe(xs)
      r == IF d = <<>> THEN 0 ELSE seed % Len(d)
  IN  SubSeq(d, r + 1, Len(d)) \o SubSeq(d, 1, r)

-----------------------------------------------------------------------------
(* JobParser, app/company_portal/job_parser.py *)

JobParser_skill_database ==
  << [category |-> "programming", skills |-> <<
        <<"P","y","t","h","o","n">>,
        <<"J","a","v","a">>,
        <<"J","a","v","a","S","c","r","i","p","t">>,
        <<"C","+","+">>,
        <<"C","#">>,
        <<"G","o">>,
        <<"R","u","s","t">>,
        <<"S","w","i","f","t">>,
        <<"K","o","t","l","i","n">>,
        <<"T","y","p","e","S","c","r","i","p","t">>
      >>],
     [category |-> "web_dev", skills |-> <<
        <<"H","T","M","L">>,
        <<"C","S","S">>,
        <<"R","e","a","c","t">>,
        <<"A","n","g","u","l","a","r">>,
        <<"V","u","e">>,
        <<"N","o","d","e",".","j","s">>,
        <<"E","x","p","r","e","s","s">>,
        <<"D","j","a","n","g","o">>,
        <<"F","l","a","s","k">>,
        <<"S","p","r","i","n","g">>
      >>],
     [category |-> "mobile", skills |-> <<
        <<"R","e","a","c","t"," ","N","a","t","i","v","e">>,
        <<"F","l","u","t","t","e","r">>,
        <<"A","n","d","r","o","i","d">>,
        <<"i","O","S">>,
        <<"X","a","m","a","r","i","n">>
      >>],
     [category |-> "databases", skills |-> <<
        <<"S","Q","L">>,
        <<"M","y","S","Q","L">>,
        <<"P","o","s","t","g","r","e","S","Q","L">>,
        <<"M","o","n","g","o","D","B">>,
        <<"R","e","d","i","s">>,
        <<"C","a","s","s","a","n","d","r","a">>,
        <<"O","r","a","c","l","e">>,
        <<"S","Q","L","i","t","e">>
      >>],
     [category |-> "cloud", skills |-> <<
        <<"A","W","S">>,
        <<"A","z","u","r","e">>,
        <<"G","C","P">>,
        <<"D","o","c","k","e","r">>,
        <<"K","u","b","e","r","n","e","t","e","s">>,
        <<"T","e","r","r","a","f","o","r","m">>,
        <<"A","n","s","i","b","l","e">>,
        <<"J","e","n","k","i","n","s">>,
        <<"C","I","/","C","D">>
      >>],
     [category |-> "data_science", skills |-> <<
        <<"P","y","t","h","o","n">>,
        <<"R">>,
        <<"S","Q","L">>,
        <<"P","a","n","d","a","s">>,
        <<"N","u","m","P","y">>,
        <<"S","c","i","k","i","t","-","l","e","a","r","n">>,
        <<"T","e","n","s","o","r","F","l","o","w">>,
        <<"P","y","T","o","r","c","h">>,
        <<"T","a","b","l","e","a","u">>,
        <<"P","o","w","e","r"," ","B","I">>
      >>],
     [category |-> "ai_ml", skills |-> <<
        <<"M","a","c","h","i","n","e"," ","L","e","a","r","n","i","n","g">>,
        <<"D","e","e","p"," ","L","e","a","r","n","i","n","g">>,
        <<"N","L","P">>,
        <<"C","o","m","p","u","t","e","r"," ","V","i","s","i","o","n">>,
        <<"R","e","i","n","f","o","r","c","e","m","e","n","t"," ","L","e","a","r","n","i","n","g">>,
        <<"M","L","O","p","s">>
      >>],
     [category |-> "devops", skills |-> <<
        <<"L","i","n","u","x">>,
        <<"B","a","s","h">>,
        <<"G","i","t">>,
        <<"D","o","c","k","e","r">>,
        <<"K","u","b","e","r","n","e","t","e","s">>,
        <<"A","W","S">>,
        <<"A","z","u","r","e">>,
        <<"J","e","n","k","i","n","s">>,
        <<"T","e","r","r","a","f","o","r","m">>
      >>],
     [category |-> "soft_skills", skills |-> <<
        <<"C","o","m","m","u","n","i","c","a","t","i","o","n">>,
        <<"L","e","a","d","e","r","s","h","i","p">>,
        <<"T","e","a","m","w","o","r","k">>,
        <<"P","r","o","b","l","e","m","-","s","o","l","v","i","n","g">>,
        <<"C","r","i","t","i","c","a","l"," ","T","h","i","n","k","i","n","g">>,
        <<"T","i","m","e"," ","M","a","n","a","g","e","m","e","n","t">>
      >>],
     [category |-> "tools", skills |-> <<
        <<"G","i","t">>,
        <<"J","I","R","A">>,
        <<"C","o","n","f","l","u","e","n","c","e">>,
        <<"S","l","a","c","k">>,
        <<"F","i","g","m","a">>,
        <<"V","S"," ","C","o","d","e">>,
        <<"I","n","t","e","l","l","i","J">>,
        <<"P","o","s","t","m","a","n">>
      >>] >>

JobParser_extract_skills(text) ==
  LET text_lower == Lower(text)
      category_skills(k) ==
        SelectSeq(JobParser_skill_database[k].skills,
                  LAMBDA skill : SearchEscapedWord(Lower(skill), text_lower))
      per_category ==
        [k \in 1..Len(JobParser_skill_database) |->
           [category |-> JobParser_skill_database[k].category,
            skills   |-> category_skills(k)]]
  IN  SelectSeq(per_category, LAMBDA e : e.skills # <<>>)

\* (?:years?|yrs?)
YearsUnit ==
  Alt(<< Cat(<< Lit(<<"y","e","a","r">>), Opt(Lit(<<"s">>)) >>),
         Cat(<< Lit(<<"y","r">>), Opt(Lit(<<"s">>)) >>) >>)

LitOf == Lit(<<"o","f">>)

LitExperience == Lit(<<"e","x","p","e","r","i","e","n","c","e">>)

\* extract_experience, lines 107-111
experience_patterns ==
  << \* (\d+\+?\s*(?:years?|yrs?)\s*(?:of)?\s*experience)
     Grp(1, Cat(<< Plus(Digits), Opt(Lit(<<"+">>)), Star(Whitespace), YearsUnit,
                   Star(Whitespace), Opt(LitOf), Star(Whitespace), LitExperience >>)),
     \* experience\s*(?:of)?\s*(\d+\+?\s*(?:years?|yrs?))
     Cat(<< LitExperience, Star(Whitespace), Opt(LitOf), Star(Whitespace),
            Grp(1, Cat(<< Plus(Digits), Opt(Lit(<<"+">>)), Star(Whitespace), YearsUnit >>)) >>),
     \* (\d+)\s*-\s*(\d+)\s*(?:years?|yrs?)\s*experience
     Cat(<< Grp(1, Plus(Digits)), Star(Whitespace), Lit(<<"-">>), Star(Whitespace),
            Grp(2, Plus(Digits)), Star(Whitespace), YearsUnit, Star(Whitespace),
            LitExperience >>) >>

extract_experience(text, seed) ==
  LET experience ==
        Flatten([k \in 1..Len(experience_patterns) |->
                   re_finditer_groups(experience_patterns[k], text)])
  IN  list_set(experience, seed)

education_keywords ==
  << <<"b","a","c","h","e","l","o","r">>,
     <<"b","\\",".","?","t","e","c","h">>,
     <<"b","\\",".","?","e">>,
     <<"b","\\",".","?","s","c">>,
     <<"m","a","s","t","e","r">>,
     <<"m","\\",".","?","t","e","c","h">>,
     <<"m","\\",".","?","e">>,
     <<"m","\\",".","?","s","c">>,
     <<"m","b","a">>,
     <<"p","h","d">>,
     <<"d","o","c","t","o","r","a","t","e">>,
     <<"d","e","g","r","e","e">>,
     <<"d","i","p","l","o","m","a">>,
     <<"g","r","a","d","u","a","t">>,
     <<"q","u","a","l","i","f">>,
     <<"c","e","r","t","i","f">> >>

\* sentence.strip() of every sentence holding one of the keywords
KeywordSentences(text, keywords) ==
  LET sentences == SplitSentences(text)
      hits == SelectSeq(sentences, LAMBDA sentence : ContainsAny(Lower(sentence), keywords))
  IN  [i \in 1..Len(hits) |-> Strip(hits[i])]

extract_education(text) == Take(KeywordSentences(text, education_keywords), 5)

responsibility_keywords ==
  << <<"r","e","s","p","o","n","s","i","b","l","e">>,
     <<"r","e","s","p","o","n","s","i","b","i","l","i","t">>,
     <<"d","u","t","i","e","s">>,
     <<"r","o","l","e">>,
     <<"w","i","l","l">>,
     <<"m","u","s","t">>,
     <<"s","h","o","u","l","d">>,
     <<"r","e","q","u","i","r","e","s"," ","t","o">> >>

extract_responsibilities(text) ==
  LET sentences == SplitSentences(text)
      hits  == SelectSeq(sentences,
                         LAMBDA sentence : ContainsAny(Lower(sentence), responsibility_keywords))
      clean == [i \in 1..Len(hits) |-> JoinWords(Words(hits[i]))]
  IN  Take(SelectSeq(clean, LAMBDA clean_sentence : Len(Words(clean_sentence)) > 4), 10)

requirement_keywords ==
  << <<"r","e","q","u","i","r","e","m","e","n","t">>,
     <<"r","e","q","u","i","r","e","d">>,
     <<"m","u","s","t"," ","h","a","v","e">>,
     <<"s","h","o","u","l","d"," ","h","a","v","e">>,
     <<"n","e","e","d"," ","t","o"," ","h","a","v","e">>,
     <<"e","s","s","e","n","t","i","a","l">>,
     <<"p","r","e","f","e","r","r","e","d">>,
     <<"q","u","a","l","i","f">> >>

extract_requirements(text) == Take(KeywordSentences(text, requirement_keywords), 10)

NotSpecified == <<"N","o","t"," ","S","p","e","c","i","f","i","e","d">>

\* the first pattern of the list that matches anywhere in the text, or NoMatch
RECURSIVE FirstPatternMatch(_, _)
FirstPatternMatch(patterns, text) ==
  IF patterns = <<>> THEN NoMatch
  ELSE LET match == re_search(Head(patterns), text)
       IN  IF match.ok THEN match ELSE FirstPatternMatch(Tail(patterns), text)

\* (?:position|role|job)
TitleWord ==
  Alt(<< Lit(<<"p","o","s","i","t","i","o","n">>), Lit(<<"r","o","l","e">>), Lit(<<"j","o","b">>) >>)

\* ([A-Z][a-zA-Z\s&]+)
TitleName ==
  Grp(1, Cat(<< Ch(UpperLetters), Plus(Letters \cup Whitespace \cup {"&"}) >>))

\* extract_job_title, lines 180-185
job_title_patterns ==
  << \* (?:position|role|job)\s*(?:of)?\s*([A-Z][a-zA-Z\s&]+)(?:\s+(?:position|role|job))?
     Cat(<< TitleWord, Star(Whitespace), Opt(LitOf), Star(Whitespace), TitleName,
            Opt(Cat(<< Plus(Whitespace), TitleWord >>)) >>),
     \* ([A-Z][a-zA-Z\s&]+)\s*(?:position|role|job|opening)
     Cat(<< TitleName, Star(Whitespace),
            Alt(<< Lit(<<"p","o","s","i","t","i","o","n">>), Lit(<<"r","o","l","e">>), Lit(<<"j","o","b">>),
                   Lit(<<"o","p","e","n","i","n","g">>) >>) >>),
     \* we are hiring\s*([A-Z][a-zA-Z\s&]+)
     Cat(<< Lit(<<"w","e"," ","a","r","e"," ","h","i","r","i","n","g">>),
            Star(Whitespace), TitleName >>),
     \* looking for\s*([A-Z][a-zA-Z\s&]+)
     Cat(<< Lit(<<"l","o","o","k","i","n","g"," ","f","o","r">>), Star(Whitespace), TitleName >>) >>

\* extract_job_title returning an empty string where no pattern matches
extract_job_title_NoSentinel(text) ==
  LET match == FirstPatternMatch(job_title_patterns, text)
  IN  IF match.ok THEN Strip(Group(match, text, 1)) ELSE <<>>

extract_job_title(text) ==
  LET match == FirstPatternMatch(job_title_patterns, text)
  IN  IF match.ok THEN Strip(Group(match, text, 1)) ELSE NotSpecified

\* ([A-Z][a-zA-Z\s,]+)
LocationName ==
  Grp(1, Cat(<< Ch(UpperLetters), Plus(Letters \cup Whitespace \cup {","}) >>))

\* extract_location, lines 196-200
location_patterns ==
  << \* location[:\s]+([A-Z][a-zA-Z\s,]+)
     Cat(<< Lit(<<"l","o","c","a","t","i","o","n">>), Plus({":"} \cup Whitespace),
            LocationName >>),
     \* based in\s+([A-Z][a-zA-Z\s,]+)
     Cat(<< Lit(<<"b","a","s","e","d"," ","i","n">>), Plus(Whitespace), LocationName >>),
     \* work from\s+([A-Z][a-zA-Z\s,]+)
     Cat(<< Lit(<<"w","o","r","k"," ","f","r","o","m">>), Plus(Whitespace), LocationName >>) >>

extract_location(text) ==
  LET match == FirstPatternMatch(location_patterns, text)
  IN  IF match.ok THEN Strip(Group(match, text, 1)) ELSE NotSpecified

\* the characters of the currency class as the source file holds them
CurrencySigns == {"$", "U+201A", "U+00C7", "U+03C0", "U+00A8"}

\* [$..]?\s*\d+[,\d]*(?:\.\d+)?\s*[kK]?
Amount ==
  Cat(<< Opt(Ch(CurrencySigns)), Star(Whitespace), Plus(Digits), Star({","} \cup Digits),
         Opt(Cat(<< Lit(<<".">>), Plus(Digits) >>)), Star(Whitespace), Opt(Ch({"k", "K"})) >>)

\* (amount\s*(?:-|\s+to\s+)\s*amount)
AmountRange ==
  Grp(1, Cat(<< Amount, Star(Whitespace),
                Alt(<< Lit(<<"-">>), Cat(<< Plus(Whitespace), Lit(<<"t","o">>), Plus(Whitespace) >>) >>),
                Star(Whitespace), Amount >>))

\* extract_salary, lines 211-215
salary_patterns ==
  << Cat(<< Lit(<<"s","a","l","a","r","y">>), Plus({":"} \cup Whitespace), AmountRange >>),
     Cat(<< Lit(<<"c","o","m","p","e","n","s","a","t","i","o","n">>),
            Plus({":"} \cup Whitespace), AmountRange >>),
     Cat(<< Lit(<<"p","a","y">>), Plus({":"} \cup Whitespace), AmountRange >>) >>

extract_salary(text) ==
  LET match == FirstPatternMatch(salary_patterns, text)
  IN  [range |-> IF match.ok THEN Group(match, text, 1) ELSE NotSpecified]

\* extract_company without the "line.strip() and" test of line 229
extract_company_BlankLine(text) ==
  LET lines == Take(SplitLines(text), 5)
      short == SelectSeq(lines, LAMBDA line : Len(Words(Strip(line))) <= 5)
  IN  IF short # <<>> THEN Strip(short[1]) ELSE NotSpecified

extract_company(text) ==
  LET lines == Take(SplitLines(text), 5)
      short == SelectSeq(lines, LAMBDA line : Strip(line) # <<>> /\ Len(Words(Strip(line))) <= 5)
  IN  IF short # <<>> THEN Strip(short[1]) ELSE NotSpecified

\* dict.get(key, default) on a dict held as a record
Get(d, key, default) == IF key \in DOMAIN d THEN d[key] ELSE default

\* calculate_complexity returning the sum without min(score, 100)
calculate_complexity_Unclamped(data) ==
  Len(Get(data, "skills", <<>>)) * 5
  + (IF Get(data, "experience", <<>>) # <<>> THEN 20 ELSE 0)
  + (IF Get(data, "education", <<>>) # <<>> THEN 15 ELSE 0)
  + Min(Len(Get(data, "responsibilities", <<>>)) * 3, 15)
  + Min(Len(Get(data, "requirements", <<>>)) * 2, 10)

\* calculate_complexity without the caps min(..., 15) and min(..., 10) of lines
\* 250 and 253
calculate_complexity_UncappedLists(data) ==
  LET score == Len(Get(data, "skills", <<>>)) * 5
               + (IF Get(data, "experience", <<>>) # <<>> THEN 20 ELSE 0)
               + (IF Get(data, "education", <<>>) # <<>> THEN 15 ELSE 0)
               + Len(Get(data, "responsibilities", <<>>)) * 3
               + Len(Get(data, "requirements", <<>>)) * 2
  IN  Min(score, 100)

calculate_complexity(data) ==
  LET skills_part == Len(Get(data, "skills", <<>>)) * 5
      experience_part == IF Get(data, "experience", <<>>) # <<>> THEN 20 ELSE 0
      education_part == IF Get(data, "education", <<>>) # <<>> THEN 15 ELSE 0
      responsibilities_part == Min(Len(Get(data, "responsibilities", <<>>)) * 3, 15)
      requirements_part == Min(Len(Get(data, "requirements", <<>>)) * 2, 10)
      score == skills_part + experience_part + education_part
               + responsibilities_part + requirements_part
  IN  Min(score, 100)

common_keywords ==
  << <<"t","e","a","m"," ","p","l","a","y","e","r">>,
     <<"p","r","o","b","l","e","m"," ","s","o","l","v","e","r">>,
     <<"d","e","t","a","i","l"," ","o","r","i","e","n","t","e","d">>,
     <<"f","a","s","t"," ","l","e","a","r","n","e","r">>,
     <<"e","x","c","e","l","l","e","n","t"," ","c","o","m","m","u","n","i","c","a","t","i","o","n">>,
     <<"l","e","a","d","e","r","s","h","i","p">>,
     <<"p","r","o","j","e","c","t"," ","m","a","n","a","g","e","m","e","n","t">>,
     <<"r","e","s","u","l","t","s"," ","d","r","i","v","e","n">>,
     <<"s","e","l","f"," ","m","o","t","i","v","a","t","e","d">>,
     <<"c","r","i","t","i","c","a","l"," ","t","h","i","n","k","i","n","g">>,
     <<"a","n","a","l","y","t","i","c","a","l"," ","s","k","i","l","l","s">>,
     <<"c","r","e","a","t","i","v","e">>,
     <<"a","d","a","p","t","a","b","l","e">>,
     <<"r","e","l","i","a","b","l","e">>,
     <<"p","r","o","f","e","s","s","i","o","n","a","l">> >>

\* generate_ats_keywords without the set() of line 277
generate_ats_keywords_NoSet(data, seed) ==
  LET skills   == Get(data, "skills", <<>>)
      keywords == Flatten([k \in 1..Len(skills) |-> skills[k].skills]) \o common_keywords
  IN  Take(keywords, 20)

generate_ats_keywords(data, seed) ==
  LET skills   == Get(data, "skills", <<>>)
      keywords == Flatten([k \in 1..Len(skills) |-> skills[k].skills]) \o common_keywords
      unique_keywords == list_set(keywords, seed)
  IN  Take(unique_keywords, 20)

\* lines 78-83: the score and the keywords are added to the extraction result
WithScoreAndKeywords(found, seed) ==
  LET scored == [k \in DOMAIN found \cup {"complexity_score"} |->
                   IF k = "complexity_score" THEN calculate_complexity(found) ELSE found[k]]
  IN  [k \in DOMAIN scored \cup {"ats_keywords"} |->
         IF k = "ats_keywords" THEN generate_ats_keywords(scored, seed) ELSE scored[k]]

\* each extractor runs once (lines 67-77); the result dict is then completed
parse_job_description(text, seed) ==
  CHOOSE outcome \in
    { Return(WithScoreAndKeywords(found, seed)) :
        found \in { [skills           |-> JobParser_extract_skills(text),
                     experience       |-> extract_experience(text, seed),
                     education        |-> extract_education(text),
                     responsibilities |-> extract_responsibilities(text),
                     requirements     |-> extract_requirements(text),
                     job_title        |-> extract_job_title(text),
                     location         |-> extract_location(text),
                     salary           |-> extract_salary(text),
                     company          |-> extract_company(text)] } } : TRUE

-----------------------------------------------------------------------------
(* JobParser.generate_optimized_jd                                             *)

\* the literal text of the f-strings: three pieces of lines 290-300, the bullet
\* of line 303, five pieces of lines 305-323
optimized_literals ==
  <<
     << "\n"," "," "," "," "," "," "," "," " >>,
     << "\n"," "," "," "," "," "," "," "," ","\n"," "," "," "," "," "," "," ",
        " ","U+F8FF","U+00FC","U+00E5","U+00FC"," ","*","*","A","b","o","u",
        "t"," ","t","h","e"," ","R","o","l","e",":","*","*","\n"," "," "," ",
        " "," "," "," "," ","W","e"," ","a","r","e"," ","l","o","o","k","i",
        "n","g"," ","f","o","r"," ","a"," ","t","a","l","e","n","t","e","d",
        " " >>,
     << " ","t","o"," ","j","o","i","n"," ","o","u","r"," ","d","y","n","a",
        "m","i","c"," ","t","e","a","m","."," ","\n"," "," "," "," "," "," ",
        " "," ","T","h","i","s"," ","i","s"," ","a","n"," ","e","x","c","i",
        "t","i","n","g"," ","o","p","p","o","r","t","u","n","i","t","y"," ",
        "t","o"," ","w","o","r","k"," ","o","n"," ","c","u","t","t","i","n",
        "g","-","e","d","g","e"," ","p","r","o","j","e","c","t","s"," ","a",
        "n","d"," ","\n"," "," "," "," "," "," "," "," ","m","a","k","e"," ",
        "a"," ","s","i","g","n","i","f","i","c","a","n","t"," ","i","m","p",
        "a","c","t",".","\n"," "," "," "," "," "," "," "," ","\n"," "," "," ",
        " "," "," "," "," ","U+F8FF","U+00FC","U+00EE","U+00DF"," ","*","*",
        "K","e","y"," ","R","e","s","p","o","n","s","i","b","i","l","i","t",
        "i","e","s",":","*","*","\n"," "," "," "," "," "," "," "," " >>,
     << "U+201A","U+00C4","U+00A2"," " >>,
     << "\n"," "," "," "," "," "," "," "," ","U+F8FF","U+00FC","U+00E9",
        "U+00EC"," ","*","*","R","e","q","u","i","r","e","m","e","n","t","s",
        ":","*","*","\n"," "," "," "," "," "," "," "," ","U+201A","U+00C4",
        "U+00A2"," " >>,
     << "\n"," "," "," "," "," "," "," "," ","U+201A","U+00C4","U+00A2"," ",
        "R","e","l","e","v","a","n","t"," ","e","d","u","c","a","t","i","o",
        "n","a","l"," ","b","a","c","k","g","r","o","u","n","d","\n"," "," ",
        " "," "," "," "," "," ","U+201A","U+00C4","U+00A2"," ","S","t","r",
        "o","n","g"," ","s","k","i","l","l","s"," ","i","n",":"," " >>,
     << "\n"," "," "," "," "," "," "," "," ","U+201A","U+00C4","U+00A2"," ",
        "E","x","c","e","l","l","e","n","t"," ","p","r","o","b","l","e","m",
        "-","s","o","l","v","i","n","g"," ","a","b","i","l","i","t","i","e",
        "s","\n"," "," "," "," "," "," "," "," ","U+201A","U+00C4","U+00A2",
        " ","G","o","o","d"," ","c","o","m","m","u","n","i","c","a","t","i",
        "o","n"," ","s","k","i","l","l","s","\n"," "," "," "," "," "," "," ",
        " ","\n"," "," "," "," "," "," "," "," ","U+F8FF","U+00FC","U+00ED",
        "U+00BA"," ","*","*","W","h","a","t"," ","W","e"," ","O","f","f","e",
        "r",":","*","*","\n"," "," "," "," "," "," "," "," ","U+201A",
        "U+00C4","U+00A2"," ","C","o","m","p","e","t","i","t","i","v","e"," ",
        "s","a","l","a","r","y"," ","p","a","c","k","a","g","e","\n"," "," ",
        " "," "," "," "," "," ","U+201A","U+00C4","U+00A2"," ","C","o","m",
        "p","r","e","h","e","n","s","i","v","e"," ","h","e","a","l","t","h",
        " ","b","e","n","e","f","i","t","s","\n"," "," "," "," "," "," "," ",
        " ","U+201A","U+00C4","U+00A2"," ","P","r","o","f","e","s","s","i",
        "o","n","a","l"," ","d","e","v","e","l","o","p","m","e","n","t"," ",
        "o","p","p","o","r","t","u","n","i","t","i","e","s","\n"," "," "," ",
        " "," "," "," "," ","U+201A","U+00C4","U+00A2"," ","F","l","e","x",
        "i","b","l","e"," ","w","o","r","k"," ","a","r","r","a","n","g","e",
        "m","e","n","t","s","\n"," "," "," "," "," "," "," "," ","U+201A",
        "U+00C4","U+00A2"," ","C","o","l","l","a","b","o","r","a","t","i","v",
        "e"," ","w","o","r","k"," ","e","n","v","i","r","o","n","m","e","n",
        "t","\n"," "," "," "," "," "," "," "," ","\n"," "," "," "," "," "," ",
        " "," ","U+F8FF","U+00FC","U+00EC","U+00E7"," ","*","*","L","o","c",
        "a","t","i","o","n",":","*","*"," " >>,
     << "\n"," "," "," "," "," "," "," "," ","\n"," "," "," "," "," "," "," ",
        " ","U+F8FF","U+00FC","U+00EC","U+00D6"," ","*","*","A","p","p","l",
        "y"," ","b","y",":","*","*"," " >>,
     << "\n"," "," "," "," "," "," "," "," " >> >>

\* apply_by is pd.Timestamp.now() + pd.Timedelta(days=30) formatted %Y-%m-%d
generate_optimized_jd(parsed_data, apply_by) ==
  LET job_title  == Get(parsed_data, "job_title", <<"P","o","s","i","t","i","o","n">>)
      skills     == Get(parsed_data, "skills", <<>>)
      all_skills == Flatten([k \in 1..Len(skills) |-> skills[k].skills])
      lit        == optimized_literals
      resps      == Take(Get(parsed_data, "responsibilities", <<>>), 5)
      listed     == Flatten([k \in 1..Len(resps) |-> lit[4] \o resps[k] \o << "\n" >>])
      optimized  == lit[1] \o job_title \o lit[2] \o job_title \o lit[3] \o listed
      experience == Get(parsed_data, "experience",
                        << <<"E","x","p","e","r","i","e","n","c","e"," ","i","n"," ",
                             "r","e","l","e","v","a","n","t"," ","f","i","e","l","d">> >>)
      strong     == Take(all_skills, 8)
      joined     == Flatten([k \in 1..Len(strong) |->
                               IF k = 1 THEN strong[k] ELSE << ",", " " >> \o strong[k]])
      location   == Get(parsed_data, "location",
                        <<"M","u","l","t","i","p","l","e"," ","l","o","c","a","t","i","o","n","s",
                          " ","a","v","a","i","l","a","b","l","e">>)
  IN  IF experience = <<>>
      THEN Raise("IndexError")
      ELSE Return(optimized \o lit[5] \o experience[1] \o lit[6] \o joined
                  \o lit[7] \o location \o lit[8] \o apply_by \o lit[9])

-----------------------------------------------------------------------------
(* Scenario Spec: parse_job_description called on a job text, and called again *)
(* on the same text, in the same interpreter process or in a later one         *)

\* a skill listed under two categories; a blank; a line break; an experience
\* phrase; a sentence with an education and a requirement keyword; a job title
JobFragments ==
  << <<"P","y","t","h","o","n">>,
     <<" ">>,
     <<"\n">>,
     <<"2"," ","y","r","s"," ","e","x","p","e","r","i","e","n","c","e">>,
     <<"M","B","A"," ","r","e","q","u","i","r","e","d",".">>,
     <<"r","o","l","e"," ","o","f"," ","D","e","v">> >>

MaxJobFrags == 2

MaxHashSeed == 1

HashSeeds == 0..MaxHashSeed

Init ==
  /\ pc = "start"
  /\ st = None
  /\ db = None
  /\ optimized_jd = None
  /\ calls = None
  /\ skill_database = None
  /\ returned = None
  /\ method = None
  /\ ats_keywords = None
  /\ hashseed \in HashSeeds
  /\ job_text \in TextsUpTo(JobFragments, MaxJobFrags)
  /\ extracted = None
  /\ extracted2 = None
  /\ resume_data = None
  /\ job_description = None
  /\ resume_skills = None
  /\ job_skills = None
  /\ fit_result = None
  /\ extracted_data = None
  /\ complexity_score = 0
  /\ ats_resume = None
  /\ ats_result = None

\* job_parser.py line 402: the first call
ParseJobDescription ==
  /\ pc = "start"
  /\ extracted' = parse_job_description(job_text, hashseed)
  /\ pc' = "parsed"
  /\ UNCHANGED << hashseed, job_text, extracted2, resume_data, job_description,
                  resume_skills, job_skills, fit_result, extracted_data,
                  complexity_score, ats_resume, ats_result, ats_keywords, method,
                  returned, skill_database, calls, optimized_jd, db, st >>

\* the application is started again: a new interpreter with a new hash seed
RestartInterpreter ==
  /\ pc = "parsed"
  /\ hashseed' \in HashSeeds
  /\ pc' = "restarted"
  /\ UNCHANGED << job_text, extracted, extracted2, resume_data, job_description,
                  resume_skills, job_skills, fit_result, extracted_data,
                  complexity_score, ats_resume, ats_result, ats_keywords, method,
                  returned, skill_database, calls, optimized_jd, db, st >>

\* a second call on the same text
ParseJobDescriptionAgain ==
  /\ pc \in {"parsed", "restarted"}
  /\ extracted2' = parse_job_description(job_text, hashseed)
  /\ pc' = "parsed_twice"
  /\ UNCHANGED << hashseed, job_text, extracted, resume_data, job_description,
                  resume_skills, job_skills, fit_result, extracted_data,
                  complexity_score, ats_resume, ats_result, ats_keywords, method,
                  returned, skill_database, calls, optimized_jd, db, st >>

\* the result of the first call is handed to generate_optimized_jd on some day
GenerateOptimizedJd ==
  /\ pc = "parsed"
  /\ \E apply_by \in { <<"2","0","2","6","-","1","2","-","0","3">>,
                        <<"2","0","2","7","-","0","1","-","0","1">> } :
       optimized_jd' = generate_optimized_jd(extracted.value, apply_by)
  /\ pc' = "optimized"
  /\ UNCHANGED << hashseed, job_text, extracted2, resume_data,
                  job_description, resume_skills, job_skills, fit_result,
                  extracted_data, complexity_score, ats_resume, ats_result,
                  ats_keywords, method, returned, skill_database, calls, extracted,
                  db, st >>

Next ==
  \/ ParseJobDescription
  \/ RestartInterpreter
  \/ ParseJobDescriptionAgain
  \/ GenerateOptimizedJd

Spec == Init /\ [][Next]_vars

-----------------------------------------------------------------------------
(* ResumeBuilder.calculate_ats_score.  The resume record is a dict whose keys   *)
(* may be absent; a value is a str, a list or a dict, tagged with its type.     *)

PyStr(s) == [type |-> "str", v |-> s]

PyList(l) == [type |-> "list", v |-> l]

PyDict(d) == [type |-> "dict", v |-> d]

\* bool(x) of a str, list or dict
Truthy(x) == x.v # <<>>

\* resume_data.get(key): the value, or None (falsy) for an absent key
Present(d, key) == key \in DOMAIN d /\ Truthy(d[key])

\* s.split(',')
SplitCommas(s) == SplitAt(s, {","}, FALSE)

required_sections == << "experience", "education", "skills" >>

action_verbs ==
  << <<"i","n","c","r","e","a","s","e","d">>,
     <<"r","e","d","u","c","e","d">>,
     <<"i","m","p","r","o","v","e","d">>,
     <<"a","c","h","i","e","v","e","d">>,
     <<"d","e","v","e","l","o","p","e","d">> >>

\* line 89
skill_count(skills) ==
  IF skills.type = "str" THEN Len(SplitCommas(skills.v)) ELSE Len(skills.v)

\* line 101: len(resume_data.get('summary', ''))
summary_length(d) == IF "summary" \in DOMAIN d THEN Len(d.summary.v) ELSE 0

\* ats_level with "score > 60" for "score >= 60"
ats_level_StrictGood(score) ==
  IF score >= 80 THEN "Excellent" ELSE IF score > 60 THEN "Good" ELSE "Needs Improvement"

\* line 109
ats_level(score) ==
  IF score >= 80 THEN "Excellent" ELSE IF score >= 60 THEN "Good" ELSE "Needs Improvement"

\* calculate_ats_score returning the sum without min(score, 100)
calculate_ats_score_Unclamped(d) ==
  LET sections == SelectSeq(required_sections, LAMBDA section : Present(d, section))
      absent   == SelectSeq(required_sections, LAMBDA section : ~Present(d, section))
      section_feedback == [i \in 1..Len(absent) |-> << "Missing section", absent[i] >>]
      skills_part == IF Present(d, "skills") THEN Min(skill_count(d.skills) * 2, 30) ELSE 0
      has_verbs == Present(d, "experience")
                   /\ ContainsAny(Lower(d.experience.v), action_verbs)
      verbs_feedback ==
        IF ~Present(d, "experience") THEN <<>>
        ELSE IF has_verbs
             THEN << << "Good use of action verbs and quantifiable results" >> >>
             ELSE << << "Add more quantifiable achievements" >> >>
      summary_ok == summary_length(d) > 50 /\ summary_length(d) < 200
      summary_feedback ==
        IF summary_ok THEN <<>> ELSE << << "Summary should be 50-200 characters" >> >>
      score == 20 * Len(sections) + skills_part
               + (IF has_verbs THEN 20 ELSE 0) + (IF summary_ok THEN 10 ELSE 0)
  IN  Return([score    |-> score,
              feedback |-> section_feedback \o verbs_feedback \o summary_feedback,
              level    |-> ats_level(score)])

calculate_ats_score(d) ==
  LET sections == SelectSeq(required_sections, LAMBDA section : Present(d, section))
      absent   == SelectSeq(required_sections, LAMBDA section : ~Present(d, section))
      section_feedback == [i \in 1..Len(absent) |-> << "Missing section", absent[i] >>]
      skills_part == IF Present(d, "skills") THEN Min(skill_count(d.skills) * 2, 30) ELSE 0
      has_verbs == Present(d, "experience")
                   /\ ContainsAny(Lower(d.experience.v), action_verbs)
      verbs_feedback ==
        IF ~Present(d, "experience") THEN <<>>
        ELSE IF has_verbs
             THEN << << "Good use of action verbs and quantifiable results" >> >>
             ELSE << << "Add more quantifiable achievements" >> >>
      summary_ok == summary_length(d) > 50 /\ summary_length(d) < 200
      summary_feedback ==
        IF summary_ok THEN <<>> ELSE << << "Summary should be 50-200 characters" >> >>
      score == 20 * Len(sections) + skills_part
               + (IF has_verbs THEN 20 ELSE 0) + (IF summary_ok THEN 10 ELSE 0)
  IN  Return([score    |-> Min(score, 100),
              feedback |-> section_feedback \o verbs_feedback \o summary_feedback,
              level    |-> ats_level(score)])

-----------------------------------------------------------------------------
(* Scenario Ats: one call of ResumeBuilder.calculate_ats_score *)

Repeat(x, n) == [i \in 1..n |-> x]

MaxAtsSkills == 15

\* the skills field: n skills as a comma-separated str, as a list, or the
\* category-grouped dict of an extraction with n categories
AtsSkills(kind, n) ==
  CASE kind = "str" -> PyStr(JoinCommas(Take(AllResumeSkills, n)))
    [] kind = "list" -> PyList(Take(AllResumeSkills, n))
    [] kind = "dict" -> PyDict(Take(ResumeBuilder_skill_database, n))

\* the experience field: empty, without and with an action verb
AtsExperience(kind) ==
  CASE kind = "empty" -> PyStr(<<>>)
    [] kind = "plain" -> PyStr(<<"W","o","r","k","e","d"," ","o","n"," ","a","p","p","s">>)
    [] kind = "verbs" -> PyStr(<<"D","e","v","e","l","o","p","e","d"," ","a","p","p","s">>)

AtsEducation(kind) ==
  CASE kind = "empty" -> PyStr(<<>>)
    [] kind = "degree" -> PyStr(<<"M","B","A">>)

\* summaries of the lengths around the two limits of line 101; -1 is no summary
SummaryLengths == {-1, 0, 49, 50, 51, 199, 200, 201}

\* the resume record with the chosen fields; a field chosen absent is no key
AtsResume(e, u, s, m) ==
  LET keys == (IF e = "absent" THEN {} ELSE {"experience"})
              \cup (IF u = "absent" THEN {} ELSE {"education"})
              \cup (IF s[1] = "absent" THEN {} ELSE {"skills"})
              \cup (IF m < 0 THEN {} ELSE {"summary"})
  IN  [k \in keys |->
         CASE k = "experience" -> AtsExperience(e)
           [] k = "education" -> AtsEducation(u)
           [] k = "skills" -> AtsSkills(s[1], s[2])
           [] k = "summary" -> PyStr(Repeat("x", m))]

InitAts ==
  /\ pc = "ats_call"
  /\ st = None
  /\ db = None
  /\ optimized_jd = None
  /\ calls = None
  /\ skill_database = None
  /\ returned = None
  /\ method = None
  /\ ats_keywords = None
  /\ \E e \in {"absent", "empty", "plain", "verbs"}, u \in {"absent", "empty", "degree"},
        s \in {<< "absent", 0 >>} \cup ({"str", "list", "dict"} \X (0..MaxAtsSkills)),
        m \in SummaryLengths :
       ats_resume = AtsResume(e, u, s, m)
  /\ ats_result = None
  /\ hashseed = 0
  /\ job_text = None
  /\ extracted = None
  /\ extracted2 = None
  /\ resume_data = None
  /\ job_description = None
  /\ resume_skills = None
  /\ job_skills = None
  /\ fit_result = None
  /\ extracted_data = None
  /\ complexity_score = 0

CalculateAtsScore ==
  /\ pc = "ats_call"
  /\ ats_result' = calculate_ats_score(ats_resume)
  /\ pc' = "ats_done"
  /\ UNCHANGED << hashseed, job_text, extracted, extracted2, resume_data,
                  job_description, resume_skills, job_skills, fit_result,
                  extracted_data, complexity_score, ats_resume, ats_keywords,
                  method, returned, skill_database, calls, optimized_jd, db, st >>

SpecAts == InitAts /\ [][CalculateAtsScore]_vars

-----------------------------------------------------------------------------
(* Scenario Complexity: one call of JobParser.calculate_complexity on an       *)
(* extraction result                                                            *)

\* distinct experience phrases: "0 yrs experience", "1 yrs experience", ...
ExperiencePhrase(k) ==
  << << "0", "1", "2", "3", "4", "5", "6", "7", "8", "9" >>[(k % 10) + 1] >>
    \o <<" ","y","r","s"," ","e","x","p","e","r","i","e","n","c","e">>

SampleSentence == <<"M","B","A"," ","r","e","q","u","i","r","e","d">>

\* the largest number of experience phrases and of education sentences
MaxPhrases == 2

\* the largest number of responsibilities and of requirements
MaxSentences == 6

\* extraction results with the first c categories found and lists of every length
ExtractionResults ==
  { [skills           |-> Take(JobParser_skill_database, c),
     experience       |-> [i \in 1..e |-> ExperiencePhrase(i)],
     education        |-> Repeat(SampleSentence, u),
     responsibilities |-> Repeat(SampleSentence, r),
     requirements     |-> Repeat(SampleSentence, q)] :
      c \in 0..Len(JobParser_skill_database), e \in 0..MaxPhrases, u \in 0..MaxPhrases,
      r \in 0..MaxSentences, q \in 0..MaxSentences }

InitComplexity ==
  /\ pc = "complexity_call"
  /\ st = None
  /\ db = None
  /\ optimized_jd = None
  /\ calls = None
  /\ skill_database = None
  /\ returned = None
  /\ method = None
  /\ ats_keywords = None
  /\ extracted_data \in ExtractionResults
  /\ complexity_score = 0
  /\ hashseed = 0
  /\ job_text = None
  /\ extracted = None
  /\ extracted2 = None
  /\ resume_data = None
  /\ job_description = None
  /\ resume_skills = None
  /\ job_skills = None
  /\ fit_result = None
  /\ ats_resume = None
  /\ ats_result = None

CalculateComplexity ==
  /\ pc = "complexity_call"
  /\ complexity_score' = calculate_complexity(extracted_data)
  /\ pc' = "complexity_done"
  /\ UNCHANGED << hashseed, job_text, extracted, extracted2, resume_data,
                  job_description, resume_skills, job_skills, fit_result,
                  extracted_data, ats_resume, ats_result, ats_keywords, method,
                  returned, skill_database, calls, optimized_jd, db, st >>

SpecComplexity == InitComplexity /\ [][CalculateComplexity]_vars

-----------------------------------------------------------------------------
(* Scenario Keywords: one call of JobParser.generate_ats_keywords on the skills *)
(* of an extraction result                                                     *)

\* the largest number of skills found in one category
MaxSkillsPerCategory == 3

\* the skills dict of an extraction that found the first n skills of each of
\* the categories first..last of the skill database
FoundSkills(first, last, n) ==
  [k \in 1..(last - first + 1) |->
     [category |-> JobParser_skill_database[first + k - 1].category,
      skills   |-> Take(JobParser_skill_database[first + k - 1].skills, n)]]

KeywordInputs ==
  { [skills |-> <<>>] } \cup
  { [skills |-> FoundSkills(first, last, n)] :
      first \in 1..Len(JobParser_skill_database),
      last \in 1..Len(JobParser_skill_database),
      n \in 1..MaxSkillsPerCategory }

InitKeywords ==
  /\ pc = "keywords_call"
  /\ st = None
  /\ db = None
  /\ optimized_jd = None
  /\ calls = None
  /\ skill_database = None
  /\ extracted_data \in KeywordInputs
  /\ hashseed \in HashSeeds
  /\ ats_keywords = None
  /\ returned = None
  /\ method = None
  /\ job_text = None
  /\ extracted = None
  /\ extracted2 = None
  /\ resume_data = None
  /\ job_description = None
  /\ resume_skills = None
  /\ job_skills = None
  /\ fit_result = None
  /\ complexity_score = 0
  /\ ats_resume = None
  /\ ats_result = None

\* job_parser.py line 83
GenerateAtsKeywords ==
  /\ pc = "keywords_call"
  /\ ats_keywords' = generate_ats_keywords(extracted_data, hashseed)
  /\ pc' = "keywords_done"
  /\ UNCHANGED << hashseed, job_text, extracted, extracted2, resume_data,
                  job_description, resume_skills, job_skills, fit_result,
                  extracted_data, complexity_score, ats_resume, ats_result,
                  method, returned, skill_database, calls, optimized_jd, db, st >>

SpecKeywords == InitKeywords /\ [][GenerateAtsKeywords]_vars

-----------------------------------------------------------------------------
(* Scenario Experience: one call of JobParser.extract_experience on a job text *)

\* experience phrases of the three patterns, the first also in other letter
\* case, a blank and a letter
ExperienceFragments ==
  << <<"5"," ","y","e","a","r","s"," ","e","x","p","e","r","i","e","n","c","e">>,
     <<" ">>,
     <<"e","x","p","e","r","i","e","n","c","e"," ","o","f"," ","2"," ","y","r","s">>,
     <<"3","-","4"," ","y","r","s"," ","e","x","p","e","r","i","e","n","c","e">>,
     <<"5"," ","Y","e","a","r","s"," ","E","x","p","e","r","i","e","n","c","e">>,
     <<"x">> >>

MaxExperienceFrags == 2

InitExperience ==
  /\ pc = "extract_call"
  /\ st = None
  /\ db = None
  /\ optimized_jd = None
  /\ calls = None
  /\ skill_database = None
  /\ hashseed \in HashSeeds
  /\ job_text \in TextsUpTo(ExperienceFragments, MaxExperienceFrags)
  /\ extracted = None
  /\ extracted2 = None
  /\ resume_data = None
  /\ job_description = None
  /\ resume_skills = None
  /\ job_skills = None
  /\ fit_result = None
  /\ extracted_data = None
  /\ complexity_score = 0
  /\ ats_resume = None
  /\ ats_result = None
  /\ ats_keywords = None
  /\ method = None
  /\ returned = None

\* job_parser.py line 69
ExtractExperience ==
  /\ pc = "extract_call"
  /\ method' = "extract_experience"
  /\ returned' = extract_experience(job_text, hashseed)
  /\ pc' = "extract_done"
  /\ UNCHANGED << hashseed, job_text, extracted, extracted2, resume_data,
                  job_description, resume_skills, job_skills, fit_result,
                  extracted_data, complexity_score, ats_resume, ats_result,
                  ats_keywords, skill_database, calls, optimized_jd, db, st >>

SpecExperience == InitExperience /\ [][ExtractExperience]_vars

-----------------------------------------------------------------------------
(* Scenario Sentences: one call of JobParser.extract_education,                *)
(* extract_responsibilities or extract_requirements on a job text              *)

\* six sentences of five words that hold a keyword of every bucket;
\* a sentence of three words with a responsibility keyword;
\* a sentence of two words, two blanks between them, with an education and a requirement keyword;
\* a sentence of five words with a responsibility keyword and irregular whitespace;
\* a sentence without keyword;
\* a blank
SentenceFragments ==
  << <<"1"," ","m","u","s","t"," ","h","a","v","e"," ","a"," ","d","e","g","r","e","e","."," ","2"," ","m","u","s","t"," ","h","a","v","e"," ","a"," ","d","e","g","r","e","e","."," ","3"," ","m","u","s","t"," ","h","a","v","e"," ","a"," ","d","e","g","r","e","e","."," ","4"," ","m","u","s","t"," ","h","a","v","e"," ","a"," ","d","e","g","r","e","e","."," ","5"," ","m","u","s","t"," ","h","a","v","e"," ","a"," ","d","e","g","r","e","e","."," ","6"," ","m","u","s","t"," ","h","a","v","e"," ","a"," ","d","e","g","r","e","e",".">>,
     <<" ","Y","o","u"," ","w","i","l","l"," ","c","o","d","e","!">>,
     <<"M","B","A"," "," ","p","r","e","f","e","r","r","e","d","?">>,
     <<"\t","W","e"," ","w","i","l","l"," "," ","w","r","i","t","e"," ","c","l","e","a","n"," ","c","o","d","e","\n",".">>,
     <<"H","e","l","l","o"," ","t","h","e","r","e",".">>,
     <<" ">> >>

MaxSentenceFrags == 2

InitSentences ==
  /\ pc = "extract_call"
  /\ st = None
  /\ db = None
  /\ optimized_jd = None
  /\ calls = None
  /\ skill_database = None
  /\ hashseed = 0
  /\ job_text \in TextsUpTo(SentenceFragments, MaxSentenceFrags)
  /\ extracted = None
  /\ extracted2 = None
  /\ resume_data = None
  /\ job_description = None
  /\ resume_skills = None
  /\ job_skills = None
  /\ fit_result = None
  /\ extracted_data = None
  /\ complexity_score = 0
  /\ ats_resume = None
  /\ ats_result = None
  /\ ats_keywords = None
  /\ method = None
  /\ returned = None

\* job_parser.py line 70
ExtractEducation ==
  /\ pc = "extract_call"
  /\ method' = "extract_education"
  /\ returned' = extract_education(job_text)
  /\ pc' = "extract_done"
  /\ UNCHANGED << hashseed, job_text, extracted, extracted2, resume_data,
                  job_description, resume_skills, job_skills, fit_result,
                  extracted_data, complexity_score, ats_resume, ats_result,
                  ats_keywords, skill_database, calls, optimized_jd, db, st >>

\* job_parser.py line 71
ExtractResponsibilities ==
  /\ pc = "extract_call"
  /\ method' = "extract_responsibilities"
  /\ returned' = extract_responsibilities(job_text)
  /\ pc' = "extract_done"
  /\ UNCHANGED << hashseed, job_text, extracted, extracted2, resume_data,
                  job_description, resume_skills, job_skills, fit_result,
                  extracted_data, complexity_score, ats_resume, ats_result,
                  ats_keywords, skill_database, calls, optimized_jd, db, st >>

\* job_parser.py line 72
ExtractRequirements ==
  /\ pc = "extract_call"
  /\ method' = "extract_requirements"
  /\ returned' = extract_requirements(job_text)
  /\ pc' = "extract_done"
  /\ UNCHANGED << hashseed, job_text, extracted, extracted2, resume_data,
                  job_description, resume_skills, job_skills, fit_result,
                  extracted_data, complexity_score, ats_resume, ats_result,
                  ats_keywords, skill_database, calls, optimized_jd, db, st >>

NextSentences == ExtractEducation \/ ExtractResponsibilities \/ ExtractRequirements

SpecSentences == InitSentences /\ [][NextSentences]_vars

-----------------------------------------------------------------------------
(* Scenario Fields: one call of JobParser.extract_job_title, extract_location, *)
(* extract_salary or extract_company on a job text                             *)

\* phrases of the second and of the first job title pattern, of the second
\* (on a new line) and of the first location pattern, and of the third and of
\* the first salary pattern
FieldFragments ==
  << <<"Q","A"," ","o","p","e","n","i","n","g">>,
     <<" ","r","o","l","e"," ","D","e","v">>,
     <<"\n","b","a","s","e","d"," ","i","n"," ","G","o","a"," ">>,
     <<"l","o","c","a","t","i","o","n",":","R","o","m","e">>,
     <<"p","a","y"," ","1","-","2"," ">>,
     <<"s","a","l","a","r","y",":"," ","5","-","9">> >>

MaxFieldFrags == 2

InitFields ==
  /\ pc = "extract_call"
  /\ st = None
  /\ db = None
  /\ optimized_jd = None
  /\ calls = None
  /\ skill_database = None
  /\ hashseed = 0
  /\ job_text \in TextsUpTo(FieldFragments, MaxFieldFrags)
  /\ extracted = None
  /\ extracted2 = None
  /\ resume_data = None
  /\ job_description = None
  /\ resume_skills = None
  /\ job_skills = None
  /\ fit_result = None
  /\ extracted_data = None
  /\ complexity_score = 0
  /\ ats_resume = None
  /\ ats_result = None
  /\ ats_keywords = None
  /\ method = None
  /\ returned = None

\* job_parser.py line 73
ExtractJobTitle ==
  /\ pc = "extract_call"
  /\ method' = "extract_job_title"
  /\ returned' = extract_job_title(job_text)
  /\ pc' = "extract_done"
  /\ UNCHANGED << hashseed, job_text, extracted, extracted2, resume_data,
                  job_description, resume_skills, job_skills, fit_result,
                  extracted_data, complexity_score, ats_resume, ats_result,
                  ats_keywords, skill_database, calls, optimized_jd, db, st >>

\* job_parser.py line 74
ExtractLocation ==
  /\ pc = "extract_call"
  /\ method' = "extract_location"
  /\ returned' = extract_location(job_text)
  /\ pc' = "extract_done"
  /\ UNCHANGED << hashseed, job_text, extracted, extracted2, resume_data,
                  job_description, resume_skills, job_skills, fit_result,
                  extracted_data, complexity_score, ats_resume, ats_result,
                  ats_keywords, skill_database, calls, optimized_jd, db, st >>

\* job_parser.py line 75
ExtractSalary ==
  /\ pc = "extract_call"
  /\ method' = "extract_salary"
  /\ returned' = extract_salary(job_text)
  /\ pc' = "extract_done"
  /\ UNCHANGED << hashseed, job_text, extracted, extracted2, resume_data,
                  job_description, resume_skills, job_skills, fit_result,
                  extracted_data, complexity_score, ats_resume, ats_result,
                  ats_keywords, skill_database, calls, optimized_jd, db, st >>

\* job_parser.py line 76
ExtractCompany ==
  /\ pc = "extract_call"
  /\ method' = "extract_company"
  /\ returned' = extract_company(job_text)
  /\ pc' = "extract_done"
  /\ UNCHANGED << hashseed, job_text, extracted, extracted2, resume_data,
                  job_description, resume_skills, job_skills, fit_result,
                  extracted_data, complexity_score, ats_resume, ats_result,
                  ats_keywords, skill_database, calls, optimized_jd, db, st >>

NextFields == ExtractJobTitle \/ ExtractLocation \/ ExtractSalary \/ ExtractCompany

SpecFields == InitFields /\ [][NextFields]_vars

-----------------------------------------------------------------------------
(* Scenario Skills: one call of JobParser.extract_skills or of                 *)
(* ResumeBuilder.extract_skills on a text                                      *)

\* two skill names that end in a non-word character, a skill name that begins
\* another one, the rest of that one, a blank, a letter and a comma
SkillFragments ==
  << <<"C","+","+">>,
     <<"C","#">>,
     <<"J","a","v","a">>,
     <<"S","c","r","i","p","t">>,
     <<" ">>,
     <<"x">>,
     <<",">> >>

MaxSkillFrags == 2

InitSkills ==
  /\ pc = "extract_call"
  /\ st = None
  /\ db = None
  /\ optimized_jd = None
  /\ calls = None
  /\ skill_database = None
  /\ hashseed = 0
  /\ job_text \in TextsUpTo(SkillFragments, MaxSkillFrags)
  /\ extracted = None
  /\ extracted2 = None
  /\ resume_data = None
  /\ job_description = None
  /\ resume_skills = None
  /\ job_skills = None
  /\ fit_result = None
  /\ extracted_data = None
  /\ complexity_score = 0
  /\ ats_resume = None
  /\ ats_result = None
  /\ ats_keywords = None
  /\ method = None
  /\ returned = None

\* job_parser.py line 68
JobParserExtractSkills ==
  /\ pc = "extract_call"
  /\ method' = "JobParser.extract_skills"
  /\ returned' = JobParser_extract_skills(job_text)
  /\ pc' = "extract_done"
  /\ UNCHANGED << hashseed, job_text, extracted, extracted2, resume_data,
                  job_description, resume_skills, job_skills, fit_result,
                  extracted_data, complexity_score, ats_resume, ats_result,
                  ats_keywords, skill_database, calls, optimized_jd, db, st >>

\* resume_builder.py line 314
ResumeBuilderExtractSkills ==
  /\ pc = "extract_call"
  /\ method' = "ResumeBuilder.extract_skills"
  /\ returned' = ResumeBuilder_extract_skills(job_text)
  /\ pc' = "extract_done"
  /\ UNCHANGED << hashseed, job_text, extracted, extracted2, resume_data,
                  job_description, resume_skills, job_skills, fit_result,
                  extracted_data, complexity_score, ats_resume, ats_result,
                  ats_keywords, skill_database, calls, optimized_jd, db, st >>

NextSkills == JobParserExtractSkills \/ ResumeBuilderExtractSkills

SpecSkills == InitSkills /\ [][NextSkills]_vars

-----------------------------------------------------------------------------
(* Scenario Concurrent: threads call extract_skills or parse_job_description   *)
(* of one JobParser, each on its own text; a thread takes one step per         *)
(* category of the loop of lines 92-101                                        *)

\* the largest number of threads
MaxThreads == 2

\* the text of the call of thread t is CallTexts[t], taken round
CallTexts ==
  << <<"P","y","t","h","o","n",","," ","S","Q","L">>,
     <<"J","a","v","a"," ","a","n","d"," ","G","i","t">>,
     <<"A","W","S">> >>

InitConcurrent ==
  /\ pc = "concurrent"
  /\ st = None
  /\ db = None
  /\ optimized_jd = None
  /\ skill_database = JobParser_skill_database
  /\ hashseed \in HashSeeds
  /\ \E ops \in [1..MaxThreads -> {"extract_skills", "parse_job_description"}] :
       calls = [t \in 1..MaxThreads |->
                  [op |-> ops[t], text |-> CallTexts[((t - 1) % Len(CallTexts)) + 1],
                   k |-> 1, found_skills |-> <<>>, done |-> FALSE, result |-> <<>>]]
  /\ job_text = None
  /\ extracted = None
  /\ extracted2 = None
  /\ resume_data = None
  /\ job_description = None
  /\ resume_skills = None
  /\ job_skills = None
  /\ fit_result = None
  /\ extracted_data = None
  /\ complexity_score = 0
  /\ ats_resume = None
  /\ ats_result = None
  /\ ats_keywords = None
  /\ method = None
  /\ returned = None

\* ExtractSkillsStep narrowing the list of the shared database in place
ExtractSkillsStep_InPlace(t) ==
  /\ pc = "concurrent"
  /\ ~calls[t].done
  /\ calls[t].k <= Len(skill_database)
  /\ LET c == calls[t]
         entry == skill_database[c.k]
         category_skills ==
           SelectSeq(entry.skills,
                     LAMBDA skill : SearchEscapedWord(Lower(skill), Lower(c.text)))
         found == IF category_skills # <<>>
                  THEN Append(c.found_skills,
                              [category |-> entry.category, skills |-> category_skills])
                  ELSE c.found_skills
         last  == c.k = Len(skill_database) /\ c.op = "extract_skills"
     IN  /\ calls' = [calls EXCEPT ![t] = [c EXCEPT !.k = c.k + 1, !.found_skills = found,
                                                   !.done = last,
                                                   !.result = IF last THEN found ELSE c.result]]
         /\ skill_database' = [skill_database EXCEPT ![c.k].skills = category_skills]
  /\ UNCHANGED << pc, hashseed, job_text, extracted, extracted2, resume_data,
                  job_description, resume_skills, job_skills, fit_result,
                  extracted_data, complexity_score, ats_resume, ats_result,
                  ats_keywords, method, returned, optimized_jd, db, st >>

\* job_parser.py lines 92-101: one category of the loop of extract_skills
ExtractSkillsStep(t) ==
  /\ pc = "concurrent"
  /\ ~calls[t].done
  /\ calls[t].k <= Len(skill_database)
  /\ LET c == calls[t]
         entry == skill_database[c.k]
         category_skills ==
           SelectSeq(entry.skills,
                     LAMBDA skill : SearchEscapedWord(Lower(skill), Lower(c.text)))
         found == IF category_skills # <<>>
                  THEN Append(c.found_skills,
                              [category |-> entry.category, skills |-> category_skills])
                  ELSE c.found_skills
         last  == c.k = Len(skill_database) /\ c.op = "extract_skills"
     IN  /\ calls' = [calls EXCEPT ![t] = [c EXCEPT !.k = c.k + 1, !.found_skills = found,
                                                   !.done = last,
                                                   !.result = IF last THEN found ELSE c.result]]
         /\ skill_database' = skill_database
  /\ UNCHANGED << pc, hashseed, job_text, extracted, extracted2, resume_data,
                  job_description, resume_skills, job_skills, fit_result,
                  extracted_data, complexity_score, ats_resume, ats_result,
                  ats_keywords, method, returned, optimized_jd, db, st >>

\* job_parser.py lines 69-85: the rest of parse_job_description
FinishParse(t) ==
  /\ pc = "concurrent"
  /\ ~calls[t].done
  /\ calls[t].k > Len(skill_database)
  /\ calls[t].op = "parse_job_description"
  /\ \E found \in { [skills           |-> calls[t].found_skills,
                     experience       |-> extract_experience(calls[t].text, hashseed),
                     education        |-> extract_education(calls[t].text),
                     responsibilities |-> extract_responsibilities(calls[t].text),
                     requirements     |-> extract_requirements(calls[t].text),
                     job_title        |-> extract_job_title(calls[t].text),
                     location         |-> extract_location(calls[t].text),
                     salary           |-> extract_salary(calls[t].text),
                     company          |-> extract_company(calls[t].text)] } :
       calls' = [calls EXCEPT ![t].done = TRUE,
                              ![t].result = WithScoreAndKeywords(found, hashseed)]
  /\ UNCHANGED << pc, hashseed, job_text, extracted, extracted2, resume_data,
                  job_description, resume_skills, job_skills, fit_result,
                  extracted_data, complexity_score, ats_resume, ats_result,
                  ats_keywords, method, returned, skill_database, optimized_jd,
                  db, st >>

NextConcurrent == \E t \in 1..MaxThreads : ExtractSkillsStep(t) \/ FinishParse(t)

SpecConcurrent == InitConcurrent /\ [][NextConcurrent]_vars

-----------------------------------------------------------------------------
(* Scenario Db: the get_db context manager of database/crud.py, used MaxUses   *)
(* times one after the other.  Every call made on the way may return, raise an *)
(* Exception, or raise a BaseException outside Exception (KeyboardInterrupt,   *)
(* SystemExit).  db.log records the calls of all uses in order.                *)

MaxUses == 2

\* db after a call: the call is logged, and the exception in flight is the one
\* the call raised, else the one before it
AfterCall(call, raised) ==
  [db EXCEPT !.exc = IF raised = "none" THEN @ ELSE [class |-> raised, from |-> call],
             !.log = Append(@, [use |-> db.use, call |-> call, raised |-> raised])]

InitDb ==
  /\ pc = "db_caller"
  /\ st = None
  /\ hashseed = 0
  /\ job_text = None
  /\ extracted = None
  /\ extracted2 = None
  /\ resume_data = None
  /\ job_description = None
  /\ resume_skills = None
  /\ job_skills = None
  /\ fit_result = None
  /\ extracted_data = None
  /\ complexity_score = 0
  /\ ats_resume = None
  /\ ats_result = None
  /\ ats_keywords = None
  /\ method = None
  /\ returned = None
  /\ skill_database = None
  /\ calls = None
  /\ optimized_jd = None
  /\ db = [use |-> 0, exc |-> [class |-> "none", from |-> "none"], log |-> <<>>]

\* line 27: a with statement enters get_db, db = SessionLocal()
GetDbEnter ==
  /\ pc = "db_caller"
  /\ db.use < MaxUses
  /\ db' = [use |-> db.use + 1,
            exc |-> [class |-> "none", from |-> "none"],
            log |-> Append(db.log, [use |-> db.use + 1, call |-> "SessionLocal",
                                    raised |-> "none"])]
  /\ pc' = "db_body"
  /\ UNCHANGED << hashseed, job_text, extracted, extracted2, resume_data,
                  job_description, resume_skills, job_skills, fit_result,
                  extracted_data, complexity_score, ats_resume, ats_result,
                  ats_keywords, method, returned, skill_database, calls,
                  optimized_jd, st >>

\* GetDbBody with a bare "except:" for the "except Exception:" of line 31
GetDbBody_BareExcept ==
  /\ pc = "db_body"
  /\ \E raised \in {"none", "Exception", "BaseException"} :
       /\ db' = AfterCall("body", raised)
       /\ pc' = IF raised = "none" THEN "db_commit" ELSE "db_rollback"
  /\ UNCHANGED << hashseed, job_text, extracted, extracted2, resume_data,
                  job_description, resume_skills, job_skills, fit_result,
                  extracted_data, complexity_score, ats_resume, ats_result,
                  ats_keywords, method, returned, skill_database, calls,
                  optimized_jd, st >>

\* line 29: the body of the with statement runs at the yield; what it raises is
\* thrown into the generator there
GetDbBody ==
  /\ pc = "db_body"
  /\ \E raised \in {"none", "Exception", "BaseException"} :
       /\ db' = AfterCall("body", raised)
       /\ pc' = CASE raised = "none" -> "db_commit"
                  [] raised = "Exception" -> "db_rollback"
                  [] raised = "BaseException" -> "db_close"
  /\ UNCHANGED << hashseed, job_text, extracted, extracted2, resume_data,
                  job_description, resume_skills, job_skills, fit_result,
                  extracted_data, complexity_score, ats_resume, ats_result,
                  ats_keywords, method, returned, skill_database, calls,
                  optimized_jd, st >>

\* line 30: db.commit()
GetDbCommit ==
  /\ pc = "db_commit"
  /\ \E raised \in {"none", "Exception", "BaseException"} :
       /\ db' = AfterCall("commit", raised)
       /\ pc' = CASE raised = "none" -> "db_close"
                  [] raised = "Exception" -> "db_rollback"
                  [] raised = "BaseException" -> "db_close"
  /\ UNCHANGED << hashseed, job_text, extracted, extracted2, resume_data,
                  job_description, resume_skills, job_skills, fit_result,
                  extracted_data, complexity_score, ats_resume, ats_result,
                  ats_keywords, method, returned, skill_database, calls,
                  optimized_jd, st >>

\* lines 32-33: db.rollback(), then raise
GetDbRollback ==
  /\ pc = "db_rollback"
  /\ \E raised \in {"none", "Exception", "BaseException"} :
       db' = AfterCall("rollback", raised)
  /\ pc' = "db_close"
  /\ UNCHANGED << hashseed, job_text, extracted, extracted2, resume_data,
                  job_description, resume_skills, job_skills, fit_result,
                  extracted_data, complexity_score, ats_resume, ats_result,
                  ats_keywords, method, returned, skill_database, calls,
                  optimized_jd, st >>

\* line 35: db.close() in the finally clause; the exception in flight then
\* reaches the caller
GetDbClose ==
  /\ pc = "db_close"
  /\ \E raised \in {"none", "Exception", "BaseException"} :
       db' = AfterCall("close", raised)
  /\ pc' = "db_caller"
  /\ UNCHANGED << hashseed, job_text, extracted, extracted2, resume_data,
                  job_description, resume_skills, job_skills, fit_result,
                  extracted_data, complexity_score, ats_resume, ats_result,
                  ats_keywords, method, returned, skill_database, calls,
                  optimized_jd, st >>

SpecDb ==
  InitDb /\ [][GetDbEnter \/ GetDbBody \/ GetDbCommit \/ GetDbRollback \/ GetDbClose]_vars

-----------------------------------------------------------------------------
(* Scenario Session: the login state of main.py.  st holds st.session_state,    *)
(* the values of the login form's widgets, the page that the last script run   *)
(* rendered and whether it showed the login error.  Every click ends with the  *)
(* script run that follows it.                                                 *)

\* the longest username and password typed
MaxNameLen == 2

\* the options of the selectbox of lines 58-61
user_types ==
  << <<"S","t","u","d","e","n","t">>,
     <<"C","o","l","l","e","g","e"," ","A","d","m","i","n">>,
     <<"C","o","m","p","a","n","y"," ","H","R">> >>

\* lines 86-95: the page that main() renders
main(session_state) ==
  IF session_state.user_type = None THEN "login_page"
  ELSE IF session_state.user_type = user_types[1] THEN "student_portal"
  ELSE IF session_state.user_type = user_types[2] THEN "college_portal"
  ELSE IF session_state.user_type = user_types[3] THEN "company_portal"
  ELSE "nothing"

\* a script run: main() renders its page; the login form keeps its inputs while
\* it is rendered and shows its defaults when it is rendered anew
ScriptRun(session_state, inputs) ==
  [session_state |-> session_state,
   inputs        |-> IF main(session_state) = "login_page" THEN inputs
                     ELSE [user_type |-> user_types[1], username |-> <<>>,
                           password |-> <<>>],
   page          |-> main(session_state),
   error         |-> FALSE]

\* lines 44-48, then the first script run
InitSession ==
  /\ pc = "session"
  /\ hashseed = 0
  /\ job_text = None
  /\ extracted = None
  /\ extracted2 = None
  /\ resume_data = None
  /\ job_description = None
  /\ resume_skills = None
  /\ job_skills = None
  /\ fit_result = None
  /\ extracted_data = None
  /\ complexity_score = 0
  /\ ats_resume = None
  /\ ats_result = None
  /\ ats_keywords = None
  /\ method = None
  /\ returned = None
  /\ skill_database = None
  /\ calls = None
  /\ optimized_jd = None
  /\ db = None
  /\ st = ScriptRun([user_type |-> None, username |-> None],
                   [user_type |-> user_types[1], username |-> <<>>,
                    password |-> <<>>])

\* lines 58-63: the user chooses a user type and types a username and a password
FillLoginForm ==
  /\ st.page = "login_page"
  /\ \E k \in 1..Len(user_types),
        username \in TextsUpTo(<< <<"a">>, <<" ">> >>, MaxNameLen),
        password \in TextsUpTo(<< <<"a">>, <<" ">> >>, MaxNameLen) :
       st' = ScriptRun(st.session_state,
                       [user_type |-> user_types[k], username |-> username,
                        password |-> password])
  /\ UNCHANGED << pc, hashseed, job_text, extracted, extracted2, resume_data,
                  job_description, resume_skills, job_skills, fit_result,
                  extracted_data, complexity_score, ats_resume, ats_result,
                  ats_keywords, method, returned, skill_database, calls,
                  optimized_jd, db >>

\* lines 67-74: the Login button
ClickLogin ==
  /\ st.page = "login_page"
  /\ IF st.inputs.username # <<>> /\ st.inputs.password # <<>>
     THEN st' = ScriptRun([user_type |-> st.inputs.user_type,
                           username  |-> st.inputs.username], st.inputs)
     ELSE st' = [st EXCEPT !.error = TRUE]
  /\ UNCHANGED << pc, hashseed, job_text, extracted, extracted2, resume_data,
                  job_description, resume_skills, job_skills, fit_result,
                  extracted_data, complexity_score, ats_resume, ats_result,
                  ats_keywords, method, returned, skill_database, calls,
                  optimized_jd, db >>

\* lines 77-80: the Demo Login button
ClickDemoLogin ==
  /\ st.page = "login_page"
  /\ st' = ScriptRun([user_type |-> <<"S","t","u","d","e","n","t">>,
                      username  |-> <<"d","e","m","o","_","s","t","u","d","e","n","t">>],
                     st.inputs)
  /\ UNCHANGED << pc, hashseed, job_text, extracted, extracted2, resume_data,
                  job_description, resume_skills, job_skills, fit_result,
                  extracted_data, complexity_score, ats_resume, ats_result,
                  ats_keywords, method, returned, skill_database, calls,
                  optimized_jd, db >>

\* ClickLogout resetting user_type only
ClickLogout_KeepsUsername ==
  /\ st.page \in {"student_portal", "college_portal", "company_portal"}
  /\ st' = ScriptRun([user_type |-> None, username |-> st.session_state.username],
                     st.inputs)
  /\ UNCHANGED << pc, hashseed, job_text, extracted, extracted2, resume_data,
                  job_description, resume_skills, job_skills, fit_result,
                  extracted_data, complexity_score, ats_resume, ats_result,
                  ats_keywords, method, returned, skill_database, calls,
                  optimized_jd, db >>

\* lines 122-125, 506-509 and 726-729: the Logout button of a portal
ClickLogout ==
  /\ st.page \in {"student_portal", "college_portal", "company_portal"}
  /\ st' = ScriptRun([user_type |-> None, username |-> None], st.inputs)
  /\ UNCHANGED << pc, hashseed, job_text, extracted, extracted2, resume_data,
                  job_description, resume_skills, job_skills, fit_result,
                  extracted_data, complexity_score, ats_resume, ats_result,
                  ats_keywords, method, returned, skill_database, calls,
                  optimized_jd, db >>

SpecSession ==
  InitSession /\ [][FillLoginForm \/ ClickLogin \/ ClickDemoLogin \/ ClickLogout]_vars

-----------------------------------------------------------------------------
(* Claims about ResumeBuilder.analyze_job_fit, checked under SpecFit *)

ResumeText == resume_data[1].value

PythonSkill == <<"P","y","t","h","o","n">>

JavaSkill == <<"J","a","v","a">>

SqlSkill == <<"S","Q","L">>

\* C2: matching a resume against itself as the job (resume fields and job
\* description hold the same text t) yields match_score 100.0 whenever at least
\* one skill is found in the job description.
C2_SelfMatchScores100 ==
  (pc = "fit_done" /\ ResumeText = job_description /\ job_skills # <<>>)
    => (fit_result.raised = "none" /\ fit_result.value.match_score = 1000)

\* C8: every (category, skill) pair of the job skills is classified exactly once,
\* matched iff the skill is listed under the same category of the resume skills and
\* missing otherwise; match_score is 100 * matched / (matched + missing) rounded to
\* one decimal; resume {Programming: [Python, Java]} against job
\* {Programming: [Python, SQL]} gives matched [Python], missing [SQL], 50.0.
C8_PairsClassifiedOnce ==
  pc = "fit_done" =>
    LET pairs   == SkillPairs(job_skills)
        v       == fit_result.value
        matched == v.matched_skills
        missing == v.missing_skills
        total   == Len(matched) + Len(missing)
        inResume(p) == \E k \in 1..Len(resume_skills) :
                          /\ resume_skills[k].category = p.category
                          /\ \E j \in 1..Len(resume_skills[k].skills) :
                               resume_skills[k].skills[j] = p.skill
        count(x, s) == Cardinality({i \in 1..Len(s) : s[i] = x})
    IN  /\ fit_result.raised = "none"
        /\ Len(pairs) <= 10 =>
             /\ total = Len(pairs)
             /\ \A i \in 1..Len(pairs) :
                  /\ count(pairs[i].skill, matched) = (IF inResume(pairs[i]) THEN 1 ELSE 0)
                  /\ count(pairs[i].skill, missing) = (IF inResume(pairs[i]) THEN 0 ELSE 1)
             /\ total > 0 =>
                  /\ 2 * (v.match_score * total - 1000 * Len(matched)) <= total
                  /\ 2 * (1000 * Len(matched) - v.match_score * total) <= total
        /\ ( /\ resume_skills = << [category |-> "Programming",
                                    skills |-> << PythonSkill, JavaSkill >>] >>
             /\ job_skills = << [category |-> "Programming",
                                 skills |-> << PythonSkill, SqlSkill >>] >> )
           => /\ matched = << PythonSkill >>
              /\ missing = << SqlSkill >>
              /\ v.match_score = 500

\* C8 witness: the scenario of the claim has been scored
C8_Witness ==
  /\ pc = "fit_done"
  /\ resume_skills = << [category |-> "Programming",
                         skills |-> << PythonSkill, JavaSkill >>] >>
  /\ job_skills = << [category |-> "Programming",
                      skills |-> << PythonSkill, SqlSkill >>] >>

\* C9: when the job description yields no skills, analyze_job_fit returns
\* match_score 0 and raises nothing.
C9_NoJobSkillsScoresZero ==
  (pc = "fit_done" /\ job_skills = <<>>)
    => (fit_result.raised = "none" /\ fit_result.value.match_score = 0)

\* C9 witness: a job description without skills scored against a resume with skills
C9_Witness ==
  /\ pc = "fit_done"
  /\ job_skills = <<>>
  /\ resume_skills # <<>>
  /\ fit_result.raised = "none"

-----------------------------------------------------------------------------
(* Claims about JobParser.parse_job_description, checked under Spec *)

Parsed == pc \in {"parsed", "restarted", "parsed_twice"}

\* the names of all extracted skills, over all categories, lower-cased
ExtractedSkillNames(skills) ==
  Flatten([k \in 1..Len(skills) |->
             [j \in 1..Len(skills[k].skills) |-> Lower(skills[k].skills[j])]])

\* C1: the skills of a parse result hold no two entries with the same skill name
\* under case-insensitive comparison, over all categories of the result.
C1_NoDuplicateSkillNames ==
  Parsed =>
    LET names == ExtractedSkillNames(extracted.value.skills)
    IN  \A i, j \in 1..Len(names) : names[i] = names[j] => i = j

\* C3: two calls of parse_job_description on the same text yield identical results,
\* the order of the experience list and of ats_keywords included.
C3_SecondCallIdentical ==
  pc = "parsed_twice" => extracted2 = extracted

ResultFields ==
  {"skills", "experience", "education", "responsibilities", "requirements", "job_title",
   "location", "salary", "company", "complexity_score", "ats_keywords"}

IsList(x) == DOMAIN x = 1..Len(x)

\* a scalar field: the sentinel, or a non-empty piece of the text
SentinelOrFound(x, text) == x = NotSpecified \/ (x # <<>> /\ Contains(text, x))

OnlyWhitespace(text) == \A i \in 1..Len(text) : text[i] \in Whitespace

\* C4: parse_job_description raises for no text and returns a result with every
\* field defined: the lists are lists, a scalar is the sentinel or a non-empty piece
\* of the text, and a whitespace-only text gives empty lists and sentinels.
C4_CompleteResult ==
  Parsed =>
    /\ extracted.raised = "none"
    /\ DOMAIN extracted.value = ResultFields
    /\ LET v == extracted.value
       IN  /\ IsList(v.skills) /\ IsList(v.experience) /\ IsList(v.education)
           /\ IsList(v.responsibilities) /\ IsList(v.requirements)
           /\ IsList(v.ats_keywords)
           /\ SentinelOrFound(v.job_title, job_text)
           /\ SentinelOrFound(v.location, job_text)
           /\ DOMAIN v.salary = {"range"}
           /\ SentinelOrFound(v.salary.range, job_text)
           /\ SentinelOrFound(v.company, job_text)
           /\ v.complexity_score \in 0..100
           /\ OnlyWhitespace(job_text) =>
                /\ v.skills = <<>> /\ v.experience = <<>> /\ v.education = <<>>
                /\ v.responsibilities = <<>> /\ v.requirements = <<>>
                /\ v.job_title = NotSpecified /\ v.location = NotSpecified
                /\ v.salary.range = NotSpecified /\ v.company = NotSpecified

\* C4 witness: a text of blanks and line breaks only has been parsed
C4_Witness ==
  /\ pc = "parsed"
  /\ Len(job_text) >= 2
  /\ OnlyWhitespace(job_text)
  /\ extracted.raised = "none"

\* C5: for the empty text the result has empty skills, experience, education,
\* responsibilities and requirements, and job_title, location, salary range and
\* company are the sentinel "Not Specified".
C5_EmptyText ==
  (Parsed /\ job_text = <<>>) =>
    /\ extracted.raised = "none"
    /\ extracted.value.skills = <<>>
    /\ extracted.value.experience = <<>>
    /\ extracted.value.education = <<>>
    /\ extracted.value.responsibilities = <<>>
    /\ extracted.value.requirements = <<>>
    /\ extracted.value.job_title = NotSpecified
    /\ extracted.value.location = NotSpecified
    /\ extracted.value.salary.range = NotSpecified
    /\ extracted.value.company = NotSpecified

\* C5 witness: the empty text has been parsed
C5_Witness == pc = "parsed" /\ job_text = <<>> /\ extracted.value.complexity_score = 0

-----------------------------------------------------------------------------
(* Claims about JobParser.calculate_complexity, checked under SpecComplexity *)

\* the sum of the five parts before the final clamp
UnclampedComplexity(d) ==
  5 * Len(d.skills)
  + (IF Len(d.experience) > 0 THEN 20 ELSE 0)
  + (IF Len(d.education) > 0 THEN 15 ELSE 0)
  + Min(3 * Len(d.responsibilities), 15)
  + Min(2 * Len(d.requirements), 10)

\* C6: calculate_complexity returns an integer in [0, 100] for every extraction
\* result.
C6_ComplexityInRange ==
  pc = "complexity_done" => complexity_score \in 0..100

\* C6 witness: a result whose parts add up to more than 100 has been scored
C6_Witness ==
  /\ pc = "complexity_done"
  /\ UnclampedComplexity(extracted_data) > 100
  /\ complexity_score = 100

\* C7: the skill-category part is 5 points per category found, capped at 30: a
\* result with categories and nothing else scores min(5 * categories, 30).
C7_CategoryPartCappedAt30 ==
  ( /\ pc = "complexity_done"
    /\ extracted_data.experience = <<>> /\ extracted_data.education = <<>>
    /\ extracted_data.responsibilities = <<>> /\ extracted_data.requirements = <<>> )
    => complexity_score = Min(5 * Len(extracted_data.skills), 30)

-----------------------------------------------------------------------------
(* Claims about ResumeBuilder.calculate_ats_score, checked under SpecAts *)

SummaryFeedback == << "Summary should be 50-200 characters" >>

AchievementsFeedback == << "Add more quantifiable achievements" >>

\* the resume of the call has an experience text holding an action verb
HasActionVerb ==
  /\ "experience" \in DOMAIN ats_resume
  /\ ContainsAny(Lower(ats_resume.experience.v), action_verbs)

\* the points of lines 79-98: sections, skills and action verbs
PointsBeforeSummary ==
  20 * Cardinality({s \in {"experience", "education", "skills"} : Present(ats_resume, s)})
  + (IF Present(ats_resume, "skills") THEN Min(2 * skill_count(ats_resume.skills), 30) ELSE 0)
  + (IF HasActionVerb THEN 20 ELSE 0)

\* C11: the +10 summary bonus is awarded exactly when the summary's length L
\* satisfies 50 <= L < 200, and otherwise the summary-length feedback is appended.
C11_SummaryBonusFrom50 ==
  pc = "ats_done" =>
    LET L == summary_length(ats_resume)
        r == ats_result.value
    IN  IF 50 <= L /\ L < 200
        THEN /\ r.score = Min(PointsBeforeSummary + 10, 100)
             /\ ~InList(SummaryFeedback, r.feedback)
        ELSE /\ r.score = Min(PointsBeforeSummary, 100)
             /\ InList(SummaryFeedback, r.feedback)

\* C12: when the +20 action-verb bonus is not awarded (no action verb in the
\* experience text, the field empty or absent included) the feedback holds the
\* "add more quantifiable achievements" message; when it is awarded it does not.
C12_NoVerbsGivesAdvice ==
  pc = "ats_done" =>
    (InList(AchievementsFeedback, ats_result.value.feedback) = ~HasActionVerb)

\* C13: the score of calculate_ats_score is an integer in [0, 100] for every
\* combination of sections, skill count, action verbs and summary length.
C13_AtsScoreInRange ==
  pc = "ats_done" => (ats_result.raised = "none" /\ ats_result.value.score \in 0..100)

\* C13 witness: a resume whose points add up to 120 has been scored 100
C13_Witness ==
  /\ pc = "ats_done"
  /\ PointsBeforeSummary = 110
  /\ summary_length(ats_resume) = 51
  /\ ats_result.value.score = 100

-----------------------------------------------------------------------------
(* Claims about JobParser.generate_ats_keywords, checked under SpecKeywords *)

\* the keywords of lines 262-274: the extracted skill names in category order,
\* then the fixed phrases
AllKeywords ==
  Flatten([k \in 1..Len(extracted_data.skills) |-> extracted_data.skills[k].skills])
    \o common_keywords

DistinctKeywords == { AllKeywords[i] : i \in 1..Len(AllKeywords) }

LeadershipSkill == <<"L","e","a","d","e","r","s","h","i","p">>

\* C14: generate_ats_keywords returns at most 20 strings, none twice; strings are
\* told apart exactly (case-sensitively), so the result holds 20 keywords, or all
\* the distinct ones when they are fewer.
C14_KeywordsCappedAndDistinct ==
  pc = "keywords_done" =>
    /\ Len(ats_keywords) <= 20
    /\ \A i, j \in 1..Len(ats_keywords) : ats_keywords[i] = ats_keywords[j] => i = j
    /\ \A i \in 1..Len(ats_keywords) : ats_keywords[i] \in DistinctKeywords
    /\ Len(ats_keywords) = Min(Cardinality(DistinctKeywords), 20)

\* C14 witness: more than 20 keywords, one skill name listed twice, capped at 20
\* with both "Leadership" and "leadership" kept
C14_Witness ==
  /\ pc = "keywords_done"
  /\ Len(AllKeywords) > Cardinality(DistinctKeywords)
  /\ Cardinality(DistinctKeywords) > 20
  /\ Len(ats_keywords) = 20
  /\ InList(LeadershipSkill, ats_keywords)
  /\ InList(Lower(LeadershipSkill), ats_keywords)

\* C15: the result is the first 20 distinct keywords in first-seen order (skill
\* names in category order, then the fixed phrases).
C15_FirstSeenOrder ==
  pc = "keywords_done" => ats_keywords = Take(Dedupe(AllKeywords), 20)

-----------------------------------------------------------------------------
(* Claims about JobParser.extract_experience, checked under SpecExperience *)

\* the position in text where the string x first occurs, Len(text) + 1 if nowhere
FirstOccurrence(x, text) ==
  SetMin({i \in 1..(Len(text) + 1) :
            i = Len(text) + 1
            \/ (i + Len(x) - 1 <= Len(text) /\ SubSeq(text, i, i + Len(x) - 1) = x)})

\* every match of every experience pattern, as the literal piece of the text
ExperienceMatches(text) ==
  UNION { { m[i] : i \in 1..Len(m) } :
            m \in { re_finditer_groups(experience_patterns[k], text) :
                      k \in 1..Len(experience_patterns) } }

\* C16: extract_experience returns the literal matched experience phrases, each
\* once, in the order of their first occurrence in the text.
C16_FirstOccurrenceOrder ==
  pc = "extract_done" =>
    /\ { returned[i] : i \in 1..Len(returned) } = ExperienceMatches(job_text)
    /\ \A i, j \in 1..Len(returned) :
         /\ returned[i] = returned[j] => i = j
         /\ i < j => FirstOccurrence(returned[i], job_text)
                       <= FirstOccurrence(returned[j], job_text)

-----------------------------------------------------------------------------
(* Claims about the sentence buckets of JobParser, checked under SpecSentences *)

\* the keyword list and the cap of the bucket filled by the method called
BucketKeywords ==
  CASE method = "extract_education" -> education_keywords
    [] method = "extract_responsibilities" -> responsibility_keywords
    [] method = "extract_requirements" -> requirement_keywords

BucketCap == IF method = "extract_education" THEN 5 ELSE 10

\* the sentences of the text (split on '.', '!', '?') that hold, as a substring
\* and in any letter case, a keyword of the bucket, in text order
QualifyingSentences ==
  SelectSeq(SplitSentences(job_text),
            LAMBDA sentence : ContainsAny(Lower(sentence), BucketKeywords))

\* C17: a sentence is placed in the education, responsibilities or requirements
\* bucket whenever it holds a keyword of the bucket, whatever its length in
\* words, subject only to the cap of the bucket.
C17_KeywordSentencesBucketed ==
  pc = "extract_done" =>
    /\ Len(returned) = Min(Len(QualifyingSentences), BucketCap)
    /\ \A i \in 1..Len(returned) :
         i <= Len(QualifyingSentences) => Words(returned[i]) = Words(QualifyingSentences[i])

\* C18: education has at most 5 entries, responsibilities and requirements at
\* most 10; each list is the prefix of the qualifying sentences in text order,
\* each trimmed of leading and trailing whitespace.
C18_BucketsCappedPrefix ==
  pc = "extract_done" =>
    /\ Len(returned) <= BucketCap
    /\ returned = Take([i \in 1..Len(QualifyingSentences) |-> Strip(QualifyingSentences[i])],
                       BucketCap)
    /\ \A i \in 1..Len(returned) : returned[i] = Strip(returned[i])

-----------------------------------------------------------------------------
(* Claims about the scalar fields of JobParser, checked under SpecFields *)

\* the pattern list of the method called
FieldPatterns ==
  CASE method = "extract_job_title" -> job_title_patterns
    [] method = "extract_location" -> location_patterns
    [] method = "extract_salary" -> salary_patterns

\* the places in the pattern list of the patterns that match somewhere in the text
MatchingPatterns ==
  { k \in 1..Len(FieldPatterns) : re_search(FieldPatterns[k], job_text).ok }

\* the first capture group of the first pattern, in list order, that matches,
\* trimmed of surrounding whitespace; the sentinel if no pattern matches
FirstPatternValue ==
  IF MatchingPatterns = {} THEN NotSpecified
  ELSE Strip(Group(re_search(FieldPatterns[SetMin(MatchingPatterns)], job_text), job_text, 1))

\* C19: job title, location and salary are the trimmed first capture group of
\* the first pattern in list order that matches anywhere in the text, and the
\* sentinel "Not Specified" if none matches; the company is trimmed, and the
\* sentinel if nothing is found.
C19_FirstPatternWinsTrimmed ==
  pc = "extract_done" =>
    CASE method = "extract_salary" -> returned.range = FirstPatternValue
      [] method = "extract_company" ->
           /\ returned = Strip(returned)
           /\ returned # <<>>
           /\ OnlyWhitespace(job_text) => returned = NotSpecified
      [] OTHER -> returned = FirstPatternValue

-----------------------------------------------------------------------------
(* Claims about extract_skills of JobParser and ResumeBuilder, checked under   *)
(* SpecSkills                                                                  *)

\* the skill database of the class whose extract_skills was called
SkillDatabase ==
  IF method = "JobParser.extract_skills" THEN JobParser_skill_database
  ELSE ResumeBuilder_skill_database

\* position i of s is outside the text, or holds whitespace or punctuation
Delimiter(s, i) == i < 1 \/ i > Len(s) \/ s[i] \notin WordChars

\* the word occurs in s as a standalone token: delimited on both sides
Standalone(word, s) ==
  \E i \in 1..Len(s) :
    LiteralAt(word, s, i) /\ Delimiter(s, i - 1) /\ Delimiter(s, i + Len(word))

\* C20: every skill of the database ("C++" and "C#" included) is extracted
\* exactly when it occurs in the text, in any letter case, as a standalone word
\* or phrase delimited by whitespace, punctuation or the ends of the text; it is
\* not extracted when it occurs only inside a longer word.
C20_StandaloneTokenMatching ==
  pc = "extract_done" =>
    \A k \in 1..Len(SkillDatabase) :
      \A j \in 1..Len(SkillDatabase[k].skills) :
        LET skill == SkillDatabase[k].skills[j]
        IN  InList(skill, SkillsGet(returned, SkillDatabase[k].category))
              = Standalone(Lower(skill), Lower(job_text))

-----------------------------------------------------------------------------
(* Claims about the construction of JobParser, checked under Spec *)

\* C21: constructing the skill database fails if a skill name is listed under
\* two categories, so a parser that has been constructed (every state of the
\* scenario) holds a database with no skill name in more than one category.
C21_TaxonomyNoSharedSkill ==
  \A k1, k2 \in 1..Len(JobParser_skill_database) :
    \A j1 \in 1..Len(JobParser_skill_database[k1].skills) :
      \A j2 \in 1..Len(JobParser_skill_database[k2].skills) :
        (pc \in {"start", "parsed", "restarted", "parsed_twice"}
         /\ JobParser_skill_database[k1].skills[j1] = JobParser_skill_database[k2].skills[j2])
          => k1 = k2

-----------------------------------------------------------------------------
(* Claims about concurrent calls on one JobParser, checked under SpecConcurrent *)

\* the result of the call of thread t when it runs alone
ResultAlone(t) ==
  IF calls[t].op = "extract_skills" THEN JobParser_extract_skills(calls[t].text)
  ELSE parse_job_description(calls[t].text, hashseed).value

\* C22: the calls only read the shared skill database, which stays as it was
\* constructed, and under every interleaving each finished call has returned what
\* the same call returns when it runs alone.
C22_CallsIndependent ==
  /\ skill_database = JobParser_skill_database
  /\ \A t \in 1..MaxThreads : calls[t].done => calls[t].result = ResultAlone(t)

\* C22 witness: a call has returned skills while another call, on another text,
\* is in the middle of its loop
C22_Witness ==
  \E t, u \in 1..MaxThreads :
    /\ calls[t].done /\ calls[t].found_skills # <<>>
    /\ ~calls[u].done /\ calls[u].k > 1 /\ calls[u].k <= Len(skill_database)
    /\ calls[u].found_skills # <<>>
    /\ calls[u].text # calls[t].text

-----------------------------------------------------------------------------
(* Claims about the lists and the score of analyze_job_fit, checked under SpecFit *)

\* the job skill p is listed under the same category of the resume skills
InResumeSkills(p) ==
  \E k \in 1..Len(resume_skills) :
    /\ resume_skills[k].category = p.category
    /\ \E j \in 1..Len(resume_skills[k].skills) : resume_skills[k].skills[j] = p.skill

\* the full matched and missing sequences: the job's skills in encounter order
\* (category order, then skill order within the category)
FullMatched == SelectSeq(SkillPairs(job_skills), InResumeSkills)

FullMissing == SelectSeq(SkillPairs(job_skills), LAMBDA p : ~InResumeSkills(p))

\* C23: matched_skills and missing_skills have at most 10 entries each and are
\* the first entries, in encounter order, of the full matched and missing
\* sequences.
C23_ListsCutToTen ==
  pc = "fit_done" =>
    LET v == fit_result.value
    IN  /\ Len(v.matched_skills) <= 10 /\ Len(v.missing_skills) <= 10
        /\ v.matched_skills = [i \in 1..Min(Len(FullMatched), 10) |-> FullMatched[i].skill]
        /\ v.missing_skills = [i \in 1..Min(Len(FullMissing), 10) |-> FullMissing[i].skill]

\* C23 witness: a job with more than 10 missing skills and a matched one
C23_Witness ==
  /\ pc = "fit_done"
  /\ Len(FullMissing) > 10
  /\ Len(FullMatched) > 0
  /\ Len(fit_result.value.missing_skills) = 10

\* C28: match_score is computed from the full matched and missing counts, so it
\* lies in [0, 100] and is 100 * matched / (matched + missing) of the full
\* counts rounded to one decimal (the counts of the returned lists when neither
\* was cut), and 0 when there is no job skill.
C28_ScoreFromFullCounts ==
  pc = "fit_done" =>
    LET score == fit_result.value.match_score
        m     == Len(FullMatched)
        total == Len(FullMatched) + Len(FullMissing)
    IN  /\ score \in 0..1000
        /\ total = 0 => score = 0
        /\ total > 0 => /\ 2 * (score * total - 1000 * m) <= total
                        /\ 2 * (1000 * m - score * total) <= total
        /\ (Len(FullMatched) <= 10 /\ Len(FullMissing) <= 10) =>
             /\ m = Len(fit_result.value.matched_skills)
             /\ total - m = Len(fit_result.value.missing_skills)

\* C28 witness: 1 matched and more than 10 missing skills, scored below the
\* 9.1 that the returned lists (1 and 10 entries) would give
C28_Witness ==
  /\ pc = "fit_done"
  /\ Len(FullMatched) = 1
  /\ Len(FullMissing) > 10
  /\ fit_result.value.match_score < 91

-----------------------------------------------------------------------------
(* Claims about the parts of calculate_complexity other than the category part, *)
(* checked under SpecComplexity                                                 *)

\* the points that line 240 adds for the skills of the result
CategoryPart(d) == 5 * Len(d.skills)

\* C24: besides the skill-category part, calculate_complexity adds 20 points iff
\* the experience list is non-empty, 15 points iff the education list is
\* non-empty, min(3 * responsibilities, 15) and min(2 * requirements, 10), and
\* the total is clamped to 100.
C24_OtherPartsAndClamp ==
  pc = "complexity_done" =>
    LET d        == extracted_data
        expected == CategoryPart(d)
                    + (IF d.experience # <<>> THEN 20 ELSE 0)
                    + (IF d.education # <<>> THEN 15 ELSE 0)
                    + (IF 3 * Len(d.responsibilities) < 15
                       THEN 3 * Len(d.responsibilities) ELSE 15)
                    + (IF 2 * Len(d.requirements) < 10
                       THEN 2 * Len(d.requirements) ELSE 10)
    IN  complexity_score = (IF expected > 100 THEN 100 ELSE expected)

\* C24 witness: a result with experience, education and more responsibilities
\* and requirements than the caps count, scored below the clamp
C24_Witness ==
  /\ pc = "complexity_done"
  /\ extracted_data.experience # <<>>
  /\ extracted_data.education # <<>>
  /\ Len(extracted_data.responsibilities) > 5
  /\ Len(extracted_data.requirements) > 5
  /\ complexity_score = CategoryPart(extracted_data) + 60
  /\ complexity_score < 100

-----------------------------------------------------------------------------
(* Claims about the section and skill points of calculate_ats_score, checked   *)
(* under SpecAts                                                               *)

\* the number of individual skills of a skills field: the comma-separated names
\* of a str, the entries of a list, the skills under all categories of a dict
IndividualSkills(skills) ==
  CASE skills.type = "str" -> Len(SplitCommas(skills.v))
    [] skills.type = "list" -> Len(skills.v)
    [] skills.type = "dict" ->
         Len(Flatten([k \in 1..Len(skills.v) |-> skills.v[k].skills]))

\* C25: calculate_ats_score adds 20 points for each of experience, education and
\* skills that is present, and min(2 * number of skills, 30) where the number is
\* that of the individual skills supplied, whether the field is a
\* comma-separated string, a list or a category-grouped extraction.
C25_SectionAndSkillPoints ==
  pc = "ats_done" =>
    LET r        == ats_result.value
        sections == Cardinality({s \in {"experience", "education", "skills"} :
                                   Present(ats_resume, s)})
        skills   == IF Present(ats_resume, "skills")
                    THEN Min(2 * IndividualSkills(ats_resume.skills), 30) ELSE 0
        verbs    == IF HasActionVerb THEN 20 ELSE 0
        summary  == IF InList(SummaryFeedback, r.feedback) THEN 0 ELSE 10
    IN  r.score = Min(20 * sections + skills + verbs + summary, 100)

-----------------------------------------------------------------------------
(* Claims about the serialised resume of analyze_job_fit, checked under SpecFit *)

\* C26: the resume skills, extracted from the JSON serialisation of the resume
\* record, are exactly the skills that extract_skills finds in the raw resume
\* field texts: serialisation neither hides a skill nor introduces one.
C26_SerialisationKeepsSkills ==
  pc = "fit_done" => resume_skills = ResumeBuilder_extract_skills(ResumeText)

-----------------------------------------------------------------------------
(* Claims about generate_optimized_jd on a parse result, checked under Spec *)

\* C27: for every text, generate_optimized_jd applied to the result of
\* parse_job_description on that text returns a job-description string without
\* raising, including when the parsed experience list is empty.
C27_OptimizedJdNeverRaises ==
  pc = "optimized" => optimized_jd.raised = "none"

-----------------------------------------------------------------------------
(* Claims about get_db, checked under SpecDb *)

\* the calls of the use that has just ended, in order
UseLog == SelectSeq(db.log, LAMBDA e : e.use = db.use)

\* the positions of a call in UseLog
CallsOf(call) == {i \in 1..Len(UseLog) : UseLog[i].call = call}

\* the body or the commit of the use raised
BodyOrCommitRaised ==
  \E i \in CallsOf("body") \cup CallsOf("commit") : UseLog[i].raised # "none"

\* the body or the commit of the use raised an Exception
BodyOrCommitRaisedException ==
  \E i \in CallsOf("body") \cup CallsOf("commit") : UseLog[i].raised = "Exception"

\* closed exactly once; commit only after a body that did not raise
ClosedOnceCommitAfterBody ==
  /\ Cardinality(CallsOf("close")) = 1
  /\ \A c \in CallsOf("commit") :
       \E b \in CallsOf("body") : b < c /\ UseLog[b].raised = "none"

\* C29 as claimed: on every exit path the session is closed exactly once; commit
\* is attempted only after the body finished without an exception; rollback
\* happens exactly when the body or the commit raised, before the close, and the
\* exception is re-raised to the caller.
C29_RollbackWheneverRaised ==
  (pc = "db_caller" /\ db.use > 0) =>
    /\ ClosedOnceCommitAfterBody
    /\ Cardinality(CallsOf("rollback")) = (IF BodyOrCommitRaised THEN 1 ELSE 0)
    /\ \A r \in CallsOf("rollback"), c \in CallsOf("close") : r < c
    /\ \A i \in CallsOf("body") \cup CallsOf("commit") :
         UseLog[i].raised # "none" =>
           db.exc = [class |-> UseLog[i].raised, from |-> UseLog[i].call]

\* C29 as amended: closed exactly once; commit only after a body that did not
\* raise; rollback exactly when the body or the commit raised an Exception (not
\* for a BaseException outside Exception), before the close; whenever the body
\* or the commit raised, an exception reaches the caller, and it is the one
\* raised unless rollback or close raised one of their own.
C29_RollbackOnException ==
  (pc = "db_caller" /\ db.use > 0) =>
    /\ ClosedOnceCommitAfterBody
    /\ Cardinality(CallsOf("rollback")) = (IF BodyOrCommitRaisedException THEN 1 ELSE 0)
    /\ \A r \in CallsOf("rollback"), c \in CallsOf("close") : r < c
    /\ \A i \in CallsOf("body") \cup CallsOf("commit") :
         UseLog[i].raised # "none" =>
           /\ db.exc.class # "none"
           /\ (\A j \in CallsOf("rollback") \cup CallsOf("close") :
                 UseLog[j].raised = "none")
                => db.exc = [class |-> UseLog[i].raised, from |-> UseLog[i].call]

\* C29 witness: a use whose body raised a BaseException has ended without a
\* rollback, closed, with that exception at the caller
C29_Witness ==
  /\ pc = "db_caller"
  /\ db.use > 0
  /\ db.exc = [class |-> "BaseException", from |-> "body"]
  /\ CallsOf("rollback") = {}
  /\ Cardinality(CallsOf("close")) = 1

-----------------------------------------------------------------------------
(* Claims about the session state of main.py, checked under SpecSession *)

\* username is None exactly when user_type is None; a portal is rendered only
\* for its user type, and the login page otherwise
SessionConsistent ==
  /\ (st.session_state.username = None) = (st.session_state.user_type = None)
  /\ st.page \in {"login_page", "student_portal", "college_portal", "company_portal"}
  /\ st.page = "student_portal" => st.session_state.user_type = user_types[1]
  /\ st.page = "college_portal" => st.session_state.user_type = user_types[2]
  /\ st.page = "company_portal" => st.session_state.user_type = user_types[3]
  /\ st.page = "login_page" =>
       \A k \in 1..Len(user_types) : st.session_state.user_type # user_types[k]

\* a step: a login attempt with an empty username or password (the error is
\* shown) changes neither field; a login sets both, to the form's user type and
\* username or to the demo user; a logout resets both to None
SessionStep ==
  /\ (st.page = "login_page" /\ st'.error) =>
       /\ st.inputs.username = <<>> \/ st.inputs.password = <<>>
       /\ st'.session_state = st.session_state
  /\ (st.page = "login_page" /\ st'.page = "login_page") =>
       st'.session_state = st.session_state
  /\ (st.page = "login_page" /\ st'.page # "login_page") =>
       \/ /\ st.inputs.username # <<>> /\ st.inputs.password # <<>>
          /\ st'.session_state = [user_type |-> st.inputs.user_type,
                                  username  |-> st.inputs.username]
       \/ st'.session_state =
            [user_type |-> <<"S","t","u","d","e","n","t">>,
             username  |-> <<"d","e","m","o","_","s","t","u","d","e","n","t">>]
  /\ (st.page # "login_page" /\ st' # st) =>
       /\ st'.session_state = [user_type |-> None, username |-> None]
       /\ st'.page = "login_page"

\* C30: in every session state reachable through login attempts, demo logins and
\* logouts, username is None exactly when user_type is None: a login attempt
\* with an empty username or password changes neither field, a successful or
\* demo login sets both, logout resets both to None, and main() renders a portal
\* only when user_type is one of Student, College Admin, Company HR and the
\* login page otherwise.
C30_UsernameIffUserType == [](SessionConsistent) /\ [][SessionStep]_vars

\* C30 witness: the Company HR portal, rendered after a login with a typed
\* username
C30_Witness ==
  /\ st.page = "company_portal"
  /\ st.session_state.username = << "a", " " >>
  /\ st.session_state.user_type = user_types[3]

====
